---- MODULE Spec2Model ----
(***************************************************************************)
(* Entry reconciliation state engine of the DNS controller                 *)
(* (pkg/dns/provider/state_entry.go, kept in the source tree as            *)
(* src/pkg/controller/source/service/handler.go lines 151-772) and the     *)
(* DNS-lock TXT protocol (checkAndUpdateLock / checkAndDeleteLock).        *)
(*                                                                         *)
(* Spec      the entry index, the DNS-name map, the outdated set, the      *)
(*           finalizers and the zone triggers under HandleUpdateEntry,     *)
(*           EntryDeleted and the zone reconciler.                         *)
(* SpecLock  two lock writers running checkAndUpdateLock /                 *)
(*           checkAndDeleteLock against one TXT name of one provider,      *)
(*           with the provider read and the provider write as separate     *)
(*           steps.                                                        *)
(* SpecCleanup  cleanupEntry applied to the entries of any index.          *)
(* SpecRefresh  HandleUpdateEntry of the lock entry in steps, together     *)
(*           with the periodic UpdateLockStates, the clock and restarts.   *)
(* SpecModify   one call of I_modify (lines 810-869) in steps.             *)
(* SpecLocking  the lock operations of concurrent workers on state.lock    *)
(*           and on the entry locks.                                       *)
(***************************************************************************)
EXTENDS Integers, Sequences, FiniteSets, TLC

VARIABLES
    obj,        \* the input objects of the control plane, by object name
    entries,    \* state.entries: object name -> *Entry
    dnsnames,   \* state.dnsnames: DNS name -> *Entry (the active claim)
    outdated,   \* state.outdated: object name -> *Entry awaiting provider delete
    prov,       \* the provider that serves each zone: none, valid or invalid
    ztrig,      \* hosted zones triggered and not yet reconciled
    queue,      \* object keys enqueued for reconciliation
    blockingEntries, \* state.blockingEntries: object names that hold back their zone
    ev,         \* what the last step did (history, read by the properties)
    txt,        \* SpecLock: the TXT record set of the contested name
    lw,         \* SpecLock: the lock writers
    rf,         \* SpecRefresh: one DNSLock, its reconcile and its background refresh
    im,         \* SpecModify: one call of I_modify
    lk,         \* SpecLocking: state.lock, the entry locks and the workers that take them
    changes,    \* how many changes the control plane has made so far
    faults      \* how many calls to the control plane or a provider have failed

vars == <<obj, entries, dnsnames, outdated, prov, ztrig, queue, blockingEntries, ev, txt, lw, rf, im, lk, changes, faults>>

\* the control plane makes at most this many changes
MaxChanges == 3

\* at most this many calls to the control plane or to a provider fail
MaxFaults == 1

----------------------------------------------------------------------------
(* The universe of the model *)

Names == {"e1", "e2", "e3"}
DNSNames == {"n1", "n2"}
Zones == {"z1", "z2"}

\* api.DNSLockKind for e3, a plain DNSEntry for the others
Kind == [n \in Names |-> IF n = "e3" THEN "lock" ELSE "entry"]

\* metadata.creationTimestamp of each object: e2 and e3 tie, e1 is later
CreationTs == [n \in Names |-> IF n = "e1" THEN 2 ELSE 1]

\* strings.Compare on the object names
NameRank == [n \in Names |-> CASE n = "e1" -> 1 [] n = "e2" -> 2 [] OTHER -> 3]

\* the hosted zone whose domain covers a DNS name
ZoneOf == [d \in DNSNames |-> IF d = "n1" THEN "z1" ELSE "z2"]

\* the DNS names an object may ask for, whether its spec may fail validation,
\* and the zones whose provider may change: e1 and the lock e3 move between
\* the DNS names, e2 the one whose spec may be invalid
DNSFor(n) == IF n \in {"e1", "e3"} THEN DNSNames ELSE {"n1"}
GoodFor(n) == IF n = "e2" THEN {TRUE, FALSE} ELSE {TRUE}
ChangingZones == {"z1"}

\* the orders in which a range over a map with the keys S may visit them
Orders(S) == {o \in [1..Cardinality(S) -> S] : \A n \in S : \E i \in DOMAIN o : o[i] = n}

NilEntry == [id |-> 0, name |-> "", dns |-> "", valid |-> FALSE, duplicate |-> FALSE,
             modified |-> FALSE, activezone |-> "", zone |-> "", updateRequired |-> FALSE]
NilRef == <<"", 0>>

IsNil(e) == e.id = 0
Ref(e) == IF e.id = 0 THEN NilRef ELSE <<e.name, e.id>>

AbsentObj == [phase |-> "absent", fin |-> FALSE, dns |-> "", good |-> TRUE, state |-> "", busy |-> "",
              zone |-> ""]

\* what a run of cleanupEntry did: the entry held its DNS name (held), the
\* duplicates indexed on that name (cands), the keys triggered (trig), the
\* DNS-name map is as before (same) or as before but for the entry's name,
\* which is free (released), the entry is still indexed (inIndex)
NoCleanup == [ran |-> FALSE, held |-> FALSE, trig |-> {}, cands |-> {}, same |-> TRUE,
              released |-> FALSE, inIndex |-> FALSE]
NoEv == [op |-> "init", name |-> "", zt |-> {}, kt |-> {}, cl |-> NoCleanup, finrm |-> FALSE,
         res |-> "", path |-> "", dec |-> "", deleted |-> FALSE, active |-> TRUE,
         mismatch |-> FALSE, lockedio |-> {}]

----------------------------------------------------------------------------
(* The state handed through one handler: the fields of *state the handler  *)
(* reads and writes, and what it has done so far (zt, kt, cl, finrm, ...). *)
(* locked: the worker holds state.lock for writing; lockedio: the calls to *)
(* the control plane it has made while holding it.                         *)

Store == [obj |-> obj, entries |-> entries, dnsnames |-> dnsnames, outdated |-> outdated,
          prov |-> prov, ztrig |-> ztrig, queue |-> queue, blockingEntries |-> blockingEntries,
          zt |-> {}, kt |-> {}, cl |-> NoCleanup, finrm |-> FALSE, path |-> "",
          locked |-> FALSE, lockedio |-> {}]

\* Entry.Before: creation timestamp first, object name on a tie
Before(a, b) ==
    IF CreationTs[a.name] = CreationTs[b.name]
    THEN NameRank[a.name] < NameRank[b.name]
    ELSE CreationTs[a.name] < CreationTs[b.name]

\* state.zones: the hosted zones of the valid providers
KnownZones(st) == {z \in Zones : st.prov[z] = "valid"}

\* state.TriggerEntry: context.EnqueueKey(e.ClusterKey())
TriggerEntryDropped(st, n) == st
TriggerEntry(st, n) == [st EXCEPT !.queue = @ \cup {n}, !.kt = @ \cup {n}]

\* state.triggerHostedZone / state.TriggerHostedZone
triggerHostedZone(st, z) == [st EXCEPT !.ztrig = @ \cup {z}, !.zt = @ \cup {z}]

\* state.addBlockingEntries on the indexed entries of a zone whose provider
\* has changed
addBlockingEntries(st, z) ==
    [st EXCEPT !.blockingEntries =
                    @ \cup {n \in Names : ~IsNil(st.entries[n]) /\ ZoneOf[st.entries[n].dns] = z}]

\* delete(this.blockingEntries, name)
Unblock(st, n) == [st EXCEPT !.blockingEntries = @ \ {n}]

\* this.lock.Lock() / this.lock.Unlock() of the worker that runs the handler
Lock(st) == [st EXCEPT !.locked = TRUE]
Unlock(st) == [st EXCEPT !.locked = FALSE]

\* a call to the control plane is made: noted if the worker holds state.lock
Call(st, f) == [st EXCEPT !.lockedio = IF st.locked THEN @ \cup {f} ELSE @]

\* state.HasFinalizer
HasFinalizer(st, n) == st.obj[n].fin

\* state.SetFinalizer, when the control plane accepts the write
SetFinalizer(st, n) == [Call(st, "SetFinalizer") EXCEPT !.obj[n].fin = TRUE]

\* state.RemoveFinalizer, when the control plane accepts the write: an object
\* that is being deleted disappears with its last finalizer, and its key is
\* enqueued by the deletion event
RemoveFinalizer(st, n) ==
    IF st.obj[n].phase = "deleting"
    THEN [Call(st, "RemoveFinalizer") EXCEPT !.obj[n] = AbsentObj, !.queue = @ \cup {n}, !.finrm = TRUE]
    ELSE [Call(st, "RemoveFinalizer") EXCEPT !.obj[n].fin = FALSE, !.finrm = TRUE]

\* EntryVersion.UpdateStatus / Entry.UpdateStatus, when the write is accepted
UpdateStatus(st, n, state, busy) ==
    [Call(st, "UpdateStatus") EXCEPT !.obj[n].state = state, !.obj[n].busy = busy]

\* Entries.Delete: drops e only if the index still holds this very entry
EntriesDelete(ents, e) == IF Ref(ents[e.name]) = Ref(e) THEN [ents EXCEPT ![e.name] = NilEntry] ELSE ents

\* Entries.AddEntry on state.outdated
OutdatedAdd(st, e) == [st EXCEPT !.outdated[e.name] = e]

\* the ids of the entry objects of one object name that something still points to
UsedIds(st, n) ==
    {st.entries[n].id, st.outdated[n].id}
        \cup {st.dnsnames[d][2] : d \in {x \in DNSNames : st.dnsnames[x][1] = n}}

\* a newly allocated *Entry: an address no live pointer holds
FreshId(st, n) ==
    CHOOSE i \in 1..(Cardinality(DNSNames) + 3) :
        i \notin UsedIds(st, n) /\ \A j \in 1..(i - 1) : j \in UsedIds(st, n)

\* NewEntry(v, state)
NewEntry(st, v) ==
    [id |-> FreshId(st, v.name), name |-> v.name, dns |-> v.dns, valid |-> v.valid,
     duplicate |-> FALSE, modified |-> TRUE, activezone |-> st.obj[v.name].zone,
     zone |-> v.zone, updateRequired |-> Kind[v.name] = "lock"]

\* Entry.Update: another entry when the DNS name changed, else the same entry
\* carrying the new version, modified if the version differs from the old one
\* (in validity, in zone, or in that the old one was marked duplicate and the
\* new one is not)
Update(st, old, v) ==
    IF old.dns # v.dns
    THEN NewEntry(st, v)
    ELSE [old EXCEPT !.valid = v.valid, !.zone = v.zone, !.duplicate = FALSE,
                     !.modified = @ \/ old.valid # v.valid \/ old.zone # v.zone \/ old.duplicate]

\* state.IsManaging(v): the version's provider type is one of ours
IsManaging(v) == v.managing

\* state.EntryPremise: the provider and the zone that serve the object's DNS name
\* state.getProviderZoneForName: the zone of a valid provider that covers the name
getProviderZoneForName(st, dns) == IF st.prov[ZoneOf[dns]] = "valid" THEN ZoneOf[dns] ELSE ""

\* dns: the object's DNS name; hint: the zone in the object's status
EntryPremise(st, dns, hint) ==
    LET provider == st.prov[ZoneOf[dns]] # "none"
        zone == getProviderZoneForName(st, dns)
    IN  IF zone # ""
        THEN [zoneid |-> zone, provider |-> provider]
        ELSE IF provider /\ st.prov[ZoneOf[dns]] = "invalid" /\ hint # ""
             THEN [zoneid |-> hint, provider |-> provider]
             ELSE [zoneid |-> "", provider |-> provider]

\* EntryPremise.Match
Match(p, q) == p.zoneid = q.zoneid /\ p.provider = q.provider

\* NewEntryVersion + EntryVersion.Setup: the version of the object that this
\* reconcile works with; valid if the object's spec passes validation
Setup(st, n, p) ==
    LET o == st.obj[n]
        deleting == o.phase = "deleting"
        managing == p.zoneid # "" \/ (deleting /\ o.zone # "")
        valid == managing /\ o.good
    IN  [name |-> n, dns |-> o.dns, deleting |-> deleting, valid |-> valid,
         managing |-> managing,
         zone |-> IF p.zoneid # "" THEN p.zoneid ELSE IF deleting THEN o.zone ELSE ""]

\* the status Setup leaves on an object it does not accept
SetupStatus(st, v) ==
    IF v.deleting \/ v.valid THEN st
    ELSE UpdateStatus(st, v.name, IF v.managing THEN "invalid" ELSE "error", "")

----------------------------------------------------------------------------
(* state.cleanupEntry *)

\* lines 518-526: one round of the scan for the duplicate to reactivate
ScanStepFirst(found, a, dns) ==
    IF ~IsNil(a) /\ a.duplicate /\ a.dns = dns /\ IsNil(found) THEN a ELSE found
ScanStep(found, a, dns) ==
    IF ~IsNil(a) /\ a.duplicate /\ a.dns = dns
    THEN IF IsNil(found) THEN a ELSE IF Before(a, found) THEN a ELSE found
    ELSE found

RECURSIVE ScanDuplicates(_, _, _, _, _)
ScanDuplicates(ents, ord, i, dns, found) ==
    IF i > Len(ord) THEN found
    ELSE ScanDuplicates(ents, ord, i + 1, dns, ScanStep(found, ents[ord[i]], dns))

\* the indexed duplicates on a DNS name
Duplicates(ents, dns) == {n \in Names : ~IsNil(ents[n]) /\ ents[n].duplicate /\ ents[n].dns = dns}

cleanupEntry(st, e, ord) ==
    LET st1 == [st EXCEPT !.entries = EntriesDelete(@, e)]
        held == st1.dnsnames[e.dns] = Ref(e)
        found == ScanDuplicates(st1.entries, ord, 1, e.dns, NilEntry)
        st2 == IF held /\ ~IsNil(found) THEN TriggerEntry(st1, found.name) ELSE st1
        st3 == IF held THEN [st2 EXCEPT !.dnsnames[e.dns] = NilRef] ELSE st2
    IN  [st3 EXCEPT !.cl = [ran |-> TRUE, held |-> held,
                            trig |-> st3.kt \ st.kt,
                            cands |-> Duplicates(st1.entries, e.dns),
                            same |-> st3.dnsnames = st.dnsnames,
                            released |-> st3.dnsnames = [st.dnsnames EXCEPT ![e.dns] = NilRef],
                            inIndex |-> Ref(st3.entries[e.name]) = Ref(e)]]

----------------------------------------------------------------------------
(* state.AddEntryVersion.  io: what the control plane and the owner cache  *)
(* answer in this run (setOk, rmOk, updOk: the write is accepted; active:  *)
(* Entry.IsActive; chg: the version differs from the one before);          *)
(* ord: the order of the range over the index.  The result is the store,   *)
(* the entry returned (NilEntry for nil) and the reconcile status.         *)

Ret(st, new, status) == [st |-> st, new |-> new, status |-> status]

\* reconcile.DelayOnError(logger, err)
DelayOnError(ok) == IF ok THEN "succeeded" ELSE "delay"

\* the entry as the index holds it now, or the detached copy
Live(st, e) == IF ~IsNil(e) /\ Ref(st.entries[e.name]) = Ref(e) THEN st.entries[e.name] ELSE e

\* lines 361-362: the loser of the arbitration
MarkDuplicateKeepModified(e) == [e EXCEPT !.duplicate = TRUE]
MarkDuplicate(e) == [e EXCEPT !.duplicate = TRUE, !.modified = FALSE]

\* line 360: the holder of the DNS name keeps it
HolderWinsAlways(cur, new) == TRUE
HolderWins(cur, new) == Before(cur, new)

\* lines 292-328: a deleting version
DeletingBranchNoOutdated(st, v, old, new, io, ord) ==
    Ret(IF io.rmOk THEN RemoveFinalizer(st, v.name) ELSE st, new, DelayOnError(io.rmOk))
DeletingBranchRemoveAlways(st, v, old, new, io, ord) ==
    LET st1 == IF ~IsNil(old) /\ Kind[old.name] # "lock" THEN cleanupEntry(st, old, ord) ELSE st
    IN  IF new.valid /\ new.activezone \in KnownZones(st1) /\ HasFinalizer(st1, v.name)
        THEN Ret([OutdatedAdd(st1, new) EXCEPT !.path = "outdated"], new, "succeeded")
        ELSE IF io.rmOk
             THEN Ret([RemoveFinalizer(st1, v.name) EXCEPT !.path = "remove"], new, "succeeded")
             ELSE Ret([st1 EXCEPT !.entries[v.name] = new, !.path = "remove"], new, "delay")
DeletingBranch(st, v, old, new, io, ord) ==
    LET n == v.name
        st1 == IF ~IsNil(old) /\ Kind[old.name] # "lock" THEN cleanupEntry(st, old, ord) ELSE st
        remove == IF new.valid
                  THEN new.activezone \notin KnownZones(st1) /\ (~io.active \/ st1.obj[n].zone = "")
                  ELSE ~io.active \/ st1.obj[n].state # "stale"
        err == remove /\ ~io.rmOk
        st2 == IF remove /\ io.rmOk THEN RemoveFinalizer(st1, n) ELSE st1
        st3 == IF err THEN [st2 EXCEPT !.entries[n] = new] ELSE st2
    IN  IF new.valid /\ new.activezone \in KnownZones(st1) /\ HasFinalizer(st1, n)
        THEN Ret([OutdatedAdd(st1, new) EXCEPT !.path = "outdated"], new, "succeeded")
        ELSE Ret([st3 EXCEPT !.path = IF remove THEN "remove" ELSE "keep"], new, DelayOnError(~err))

\* lines 376-377: cur.duplicate = true, cur.modified = false, on the entry
\* object that holds the DNS name, wherever it is still kept
MarkCur(st, cur) ==
    [st EXCEPT !.entries[cur[1]] = IF Ref(@) = cur THEN MarkDuplicate(@) ELSE @,
               !.outdated[cur[1]] = IF Ref(@) = cur THEN MarkDuplicate(@) ELSE @]

\* lines 355-393: the arbitration of the DNS name
ArbitrateNoPending(st, v, new, status, io) ==
    LET n == v.name
        cur == st.dnsnames[v.dns]
        curE == Live(st, [NilEntry EXCEPT !.name = cur[1], !.id = cur[2]])
        contested == cur # NilRef /\ cur[1] # n
        st1 == IF contested /\ ~HolderWins(curE, new)
               THEN TriggerEntry([MarkCur(st, cur) EXCEPT !.path = "winner"], cur[1])
               ELSE st
        st2 == st1
        st3 == [st2 EXCEPT !.dnsnames[v.dns] = Ref(new)]
    IN  IF contested /\ HolderWins(curE, new)
        THEN LET lost == [st EXCEPT !.entries[n] = MarkDuplicate(@), !.path = "loser"]
             IN  IF status = "succeeded"
                 THEN IF io.updOk
                      THEN Ret(UpdateStatus(lost, n, "error", cur[1]), Live(lost, new), status)
                      ELSE Ret(lost, Live(lost, new), "delay")
                 ELSE Ret(lost, Live(lost, new), status)
        ELSE Ret(st3, Live(st3, new), status)
Arbitrate(st, v, new, status, io) ==
    LET n == v.name
        cur == st.dnsnames[v.dns]
        curE == Live(st, [NilEntry EXCEPT !.name = cur[1], !.id = cur[2]])
        contested == cur # NilRef /\ cur[1] # n
        st1 == IF contested /\ ~HolderWins(curE, new)
               THEN TriggerEntry([MarkCur(st, cur) EXCEPT !.path = "winner"], cur[1])
               ELSE st
        st2 == IF new.valid /\ st1.obj[n].state \notin {"ready", "pending"} /\ io.updOk
               THEN UpdateStatus(st1, n, "pending", "")
               ELSE st1
        st3 == [st2 EXCEPT !.dnsnames[v.dns] = Ref(new)]
    IN  IF contested /\ HolderWins(curE, new)
        THEN LET lost == [st EXCEPT !.entries[n] = MarkDuplicate(@), !.path = "loser"]
             IN  IF status = "succeeded"
                 THEN IF io.updOk
                      THEN Ret(UpdateStatus(lost, n, "error", cur[1]), Live(lost, new), status)
                      ELSE Ret(lost, Live(lost, new), "delay")
                 ELSE Ret(lost, Live(lost, new), status)
        ELSE Ret(st3, Live(st3, new), status)

\* the element of a set of one element
One(S) == CHOOSE x \in S : TRUE

\* history: in the run that returned r a waiting duplicate (old) has become
\* the holder of its DNS name
NotePromoted(r, old, v) ==
    IF /\ ~IsNil(old) /\ old.duplicate /\ ~IsNil(r.new) /\ ~r.new.duplicate
       /\ r.st.dnsnames[v.dns] = Ref(r.new)
    THEN [r EXCEPT !.st.path = "promoted"]
    ELSE r

\* lines 330-393: a version that is not deleting
NonDeletingBranchAnyZone(st, v, old, new, status, io, ord) ==
    LET n == v.name
        needFin == new.valid /\ IsManaging(v)
        st1 == IF needFin THEN SetFinalizer(st, n) ELSE st
        st2 == [st1 EXCEPT !.entries[n] = new]
        changed == ~IsNil(old) /\ Ref(old) # Ref(new)
        st3 == IF changed THEN cleanupEntry(st2, old, ord) ELSE st2
        st4 == IF changed /\ old.activezone # "" /\ old.activezone \in KnownZones(st3)
               THEN triggerHostedZone(st3, old.activezone)
               ELSE st3
    IN  IF needFin /\ ~io.setOk
        THEN Ret([st EXCEPT !.path = "setfin-failed"], new, "delay")
        ELSE IF ~IsManaging(v)
             THEN Ret([st4 EXCEPT !.path = "foreign"], NilEntry, status)
             ELSE Arbitrate(st4, v, new, status, io)
NonDeletingBranch(st, v, old, new, status, io, ord) ==
    LET n == v.name
        needFin == new.valid /\ IsManaging(v)
        st1 == IF needFin THEN SetFinalizer(st, n) ELSE st
        st2 == [st1 EXCEPT !.entries[n] = new]
        changed == ~IsNil(old) /\ Ref(old) # Ref(new)
        st3 == IF changed THEN cleanupEntry(st2, old, ord) ELSE st2
        st4 == IF changed /\ old.activezone # "" /\ old.activezone # new.zone
                  /\ old.activezone \in KnownZones(st3)
               THEN triggerHostedZone(st3, old.activezone)
               ELSE st3
    IN  IF needFin /\ ~io.setOk
        THEN Ret([st EXCEPT !.path = "setfin-failed"], new, "delay")
        ELSE IF ~IsManaging(v)
             THEN Ret([st4 EXCEPT !.path = "foreign"], NilEntry, status)
             ELSE Arbitrate(st4, v, new, status, io)

AddEntryVersion(st, v, status, io, ord) ==
    LET old == st.entries[v.name]
        new == IF IsNil(old) THEN NewEntry(st, v) ELSE Update(st, old, v)
        \* lines 279-280: this.lock.Lock(); Update works on the indexed entry itself
        st1 == Unblock(Lock(IF ~IsNil(old) /\ Ref(old) = Ref(new)
                            THEN [st EXCEPT !.entries[v.name] = new] ELSE st), v.name)
    IN  One({[NotePromoted(r, old, v) EXCEPT !.st = Unlock(@)] :
                r \in {IF v.deleting
                       THEN DeletingBranch(st1, v, old, new, io, ord)
                       ELSE NonDeletingBranch(st1, v, old, new, status, io, ord)}})

----------------------------------------------------------------------------
(* TXT record sets of the DNS locks.  A TXT value "<key>=<value>" is the   *)
(* pair [k, v]; a record set is its TTL and its values.                    *)

EmptyRS == [ttl |-> 0, recs |-> <<>>]

\* strconv.ParseInt(value, 10, 64) on the timestamp texts of the model
ParseInt(s) ==
    CASE s = "50" -> [ok |-> TRUE, i |-> 50]
      [] s = "100" -> [ok |-> TRUE, i |-> 100]
      [] OTHER -> [ok |-> FALSE, i |-> 0]

\* the text of a lock's timestamp (unix seconds)
FormatInt(i) == IF i = 50 THEN "50" ELSE "100"

\* RecordSet.GetAttr: the value of the first record "<name>=...", else ""
RECURSIVE GetAttrFrom(_, _, _)
GetAttrFrom(recs, i, name) ==
    IF i > Len(recs) THEN ""
    ELSE IF recs[i].k = name THEN recs[i].v ELSE GetAttrFrom(recs, i + 1, name)
GetAttr(rs, name) == GetAttrFrom(rs.recs, 1, name)

\* lines 553-559: the record set a lock wants (its texts, its TTL)
NewRS(own) ==
    [ttl |-> own.ttl,
     recs |-> <<[k |-> "lockid", v |-> own.lockid],
                [k |-> "timestamp", v |-> FormatInt(own.ts)]>>]

Values(rs) == {rs.recs[i] : i \in DOMAIN rs.recs}

\* lines 590-604: the wanted record set differs from the one read
ChangedValuesOnly(rs, newRS) ==
    IF Len(newRS.recs) = Cardinality(Values(rs))
    THEN \E i \in DOMAIN newRS.recs : newRS.recs[i] \notin Values(rs)
    ELSE TRUE
Changed(rs, newRS) ==
    IF Len(newRS.recs) = Cardinality(Values(rs))
    THEN \E i \in DOMAIN newRS.recs : newRS.recs[i] \notin Values(rs) \/ rs.ttl # newRS.ttl
    ELSE TRUE

\* lines 565-606 of checkAndUpdateLock: what to do about the record set read
UpdateLockDecisionNoId(rs, own) ==
    IF Len(rs.recs) = 0 THEN "write"
    ELSE IF ~ParseInt(GetAttr(rs, "timestamp")).ok THEN "stale-ts"
    ELSE IF own.ts < ParseInt(GetAttr(rs, "timestamp")).i THEN "skip"
    ELSE IF Changed(rs, NewRS(own)) THEN "write" ELSE "same"
UpdateLockDecision(rs, own) ==
    IF Len(rs.recs) = 0 THEN "write"
    ELSE IF own.lockid # GetAttr(rs, "lockid") THEN "stale-id"
    ELSE IF ~ParseInt(GetAttr(rs, "timestamp")).ok THEN "stale-ts"
    ELSE IF own.ts < ParseInt(GetAttr(rs, "timestamp")).i THEN "skip"
    ELSE IF Changed(rs, NewRS(own)) THEN "write" ELSE "same"

\* lines 643-650 of checkAndDeleteLock: delete the record set read
DeleteLockDecisionAnyId(rs, own) ==
    Len(rs.recs) # 0 /\ ~(ParseInt(GetAttr(rs, "timestamp")).i > own.ts)
DeleteLockDecision(rs, own) ==
    /\ Len(rs.recs) # 0
    /\ own.lockid = GetAttr(rs, "lockid")
    /\ ~(ParseInt(GetAttr(rs, "timestamp")).i > own.ts)

\* the lock ids and timestamps of the model's locks
LockIds == {"A", "B"}
Timestamps == {50, 100}
Owns == [lockid : LockIds, ts : Timestamps, ttl : {60}]

\* what a provider may hold under a lock's name
RecordSets ==
    {EmptyRS} \cup {NewRS(o) : o \in Owns}
        \cup {[ttl |-> 60, recs |-> <<[k |-> "lockid", v |-> "A"]>>],
              [ttl |-> 120, recs |-> <<[k |-> "lockid", v |-> "A"], [k |-> "timestamp", v |-> "50"]>>],
              [ttl |-> 60, recs |-> <<[k |-> "lockid", v |-> "A"], [k |-> "timestamp", v |-> "50"],
                                      [k |-> "timestamp", v |-> "50"]>>]}

\* the lock that the lock-kind object e3 carries, and what its provider may
\* return under the lock's name
EngineOwn == [lockid |-> "A", ts |-> 50, ttl |-> 60]
EngineReads == {EmptyRS, NewRS(EngineOwn), NewRS([lockid |-> "B", ts |-> 100, ttl |-> 60])}

----------------------------------------------------------------------------
(* checkAndUpdateLock and checkAndDeleteLock as one call.  rs: the record  *)
(* set the provider returns; io.readOk, io.writeOk: the provider call      *)
(* succeeds; io.updOk, io.rmOk: the control plane accepts the write.       *)

LockRet(st, status, dec, wrote, deleted) ==
    [st |-> st, status |-> status, dec |-> dec, wrote |-> wrote, deleted |-> deleted]

\* line 612: entry.updateRequired = false, on the entry the index holds
ClearUpdateRequired(st, e) ==
    IF Ref(st.entries[e.name]) = Ref(e) THEN [st EXCEPT !.entries[e.name].updateRequired = FALSE] ELSE st

\* lines 614-627: ModifyStatus writes the premise's zone into the lock's status
ModifyLockStatus(st, n, p) == [st EXCEPT !.obj[n].zone = p.zoneid]

checkAndUpdateLock(st, e, p, own, rs, io) ==
    LET dec == UpdateLockDecision(rs, own)
    IN  IF ~e.updateRequired THEN LockRet(st, "succeeded", "not-required", FALSE, FALSE)
        ELSE IF ~p.provider THEN LockRet(st, "panic", "nil-provider", FALSE, FALSE)
        ELSE IF ~io.readOk THEN LockRet(st, "delay", "read-failed", FALSE, FALSE)
        ELSE IF dec \in {"stale-id", "stale-ts"}
             THEN IF io.updOk
                  THEN LockRet(UpdateStatus(st, e.name, "stale", ""), "succeeded", dec, FALSE, FALSE)
                  ELSE LockRet(st, "delay", dec, FALSE, FALSE)
        ELSE IF dec = "skip" THEN LockRet(st, "succeeded", dec, FALSE, FALSE)
        ELSE IF dec = "write" /\ ~io.writeOk THEN LockRet(st, "delay", dec, FALSE, FALSE)
        ELSE LockRet(IF io.updOk
                     THEN ModifyLockStatus(ClearUpdateRequired(st, e), e.name, p)
                     ELSE ClearUpdateRequired(st, e),
                     DelayOnError(io.updOk), dec, dec = "write", FALSE)

checkAndDeleteLock(st, e, p, own, rs, io) ==
    LET del == DeleteLockDecision(rs, own)
    IN  IF ~p.provider THEN LockRet(st, "panic", "nil-provider", FALSE, FALSE)
        ELSE IF ~io.readOk THEN LockRet(st, "delay", "read-failed", FALSE, FALSE)
        ELSE IF del /\ ~io.writeOk THEN LockRet(st, "delay", "delete-failed", FALSE, FALSE)
        ELSE IF io.rmOk
             THEN LockRet(RemoveFinalizer(st, e.name), "succeeded", "removed", FALSE, del)
             ELSE LockRet(st, "delay", "remove-failed", FALSE, del)

----------------------------------------------------------------------------
(* The steps of the engine *)

Bools == {TRUE, FALSE}
BeginIOs == [setOk : Bools, rmOk : Bools, updOk : Bools, active : Bools]
LockIOs == [readOk : Bools, writeOk : Bools, updOk : Bools, rmOk : Bools]

\* the keys of state.entries
IndexKeys == {n \in Names : ~IsNil(entries[n])}

\* the answers that a run of HandleUpdateEntry(n) can read: an answer that the
\* run never asks for is fixed to TRUE, and SetFinalizer writes nothing, so
\* cannot fail, on an object that carries the finalizer
\* the calls among those of io that failed
Failed(io) == {f \in DOMAIN io : f # "active" /\ ~io[f]}

BeginInputs(n) ==
    LET v == Setup(Store, n, EntryPremise(Store, obj[n].dns, obj[n].zone))
    IN  {io \in BeginIOs :
            /\ v.deleting \/ ~v.valid \/ obj[n].fin => io.setOk
            /\ ~v.deleting => io.rmOk /\ io.active
            /\ v.deleting \/ ~v.managing => io.updOk
            /\ faults + Cardinality(Failed(io)) <= MaxFaults}

\* cleanupEntry can run in HandleUpdateEntry(n) only for an indexed entry that
\* is deleted or renamed
BeginOrders(n) ==
    IF ~IsNil(entries[n]) /\ (obj[n].phase = "deleting" \/ entries[n].dns # obj[n].dns)
    THEN Orders(IndexKeys \ {n})
    ELSE {<<>>}

\* the answers that a run of the lock branch can read
LockInputs(n) ==
    {io \in LockIOs : /\ IF obj[n].phase = "deleting" THEN io.updOk ELSE io.rmOk
                      /\ Kind[n] # "lock" => io.readOk /\ io.writeOk /\ io.updOk /\ io.rmOk
                      /\ ~io.readOk => io.writeOk /\ io.updOk /\ io.rmOk
                      /\ faults + Cardinality(Failed(io)) <= MaxFaults}

\* the record sets that the provider may return to the lock branch
LockReads(n) == IF Kind[n] = "lock" THEN EngineReads ELSE {EmptyRS}

Commit(st) ==
    /\ obj' = st.obj
    /\ entries' = st.entries
    /\ dnsnames' = st.dnsnames
    /\ outdated' = st.outdated
    /\ prov' = st.prov
    /\ ztrig' = st.ztrig
    /\ queue' = st.queue
    /\ blockingEntries' = st.blockingEntries

Event(st, op, n) ==
    [NoEv EXCEPT !.op = op, !.name = n, !.zt = st.zt, !.kt = st.kt, !.cl = st.cl,
                 !.finrm = st.finrm, !.path = st.path, !.lockedio = st.lockedio]

\* the key is enqueued again unless the reconcile succeeded
Requeue(st, n, status) == IF status \in {"succeeded", "panic"} THEN st ELSE [st EXCEPT !.queue = @ \cup {n}]

\* lines 466-471: the zone of a modified entry is triggered
TriggerZone(st, new) ==
    IF new.modified /\ new.zone # "" THEN triggerHostedZone(st, new.zone) ELSE st

\* lines 474-481: the premise is computed again
FinalStatus(st, dns, hint, deleting, p, status) ==
    IF ~deleting /\ ~Match(EntryPremise(st, dns, hint), p) THEN "repeat" ELSE status

\* a provider object is updated by the provider reconciler while a reconcile
\* of an entry runs: pc is <<>> (no update) or <<zone, new state>>
ProviderUpdate(st, pc) ==
    IF pc = <<>> THEN st
    ELSE [addBlockingEntries(st, pc[1]) EXCEPT !.prov[pc[1]] = pc[2],
                    !.queue = @ \cup {m \in Names : st.obj[m].phase # "absent"
                                                    /\ ZoneOf[st.obj[m].dns] = pc[1]}]

\* lines 451-481: what HandleUpdateEntry does with the entry that
\* AddEntryVersion returned; the provider update pc arrives before line 474
AfterAddEntryVersion(r, n, p, v, hint, lio, rs, pc) ==
    LET new == Live(r.st, r.new)
    IN  IF ~IsNil(new) /\ Kind[n] = "lock"
        THEN LET l == IF v.deleting
                      THEN checkAndDeleteLock(r.st, new, p, EngineOwn, rs, lio)
                      ELSE checkAndUpdateLock(r.st, new, p, EngineOwn, rs, lio)
             IN  [l EXCEPT !.st = ProviderUpdate(@, pc)]
        ELSE LET st1 == IF IsNil(new) THEN r.st ELSE TriggerZone(r.st, new)
                 st2 == ProviderUpdate(st1, pc)
             IN  LockRet(st2, FinalStatus(st2, v.dns, hint, v.deleting, p, r.status), "", FALSE, FALSE)

\* state.HandleUpdateEntry (UpdateEntry and DeleteEntry): the store it leaves,
\* with its result
RunUpdateEntry(n, io, ord, lio, rs, pc) ==
    LET st0 == [Store EXCEPT !.queue = @ \ {n}]
        p == EntryPremise(st0, obj[n].dns, obj[n].zone)
        v == Setup(st0, n, p)
        status == IF v.valid \/ v.deleting THEN "succeeded" ELSE "failed"
    IN  One({AfterAddEntryVersion(r, n, p, v, obj[n].zone, lio, rs, pc) :
                r \in {AddEntryVersion(SetupStatus(st0, v), v, status, io, ord)}})

\* the premise of line 433 and the premise at the end of the run differ
Mismatch(n, st) ==
    ~Match(EntryPremise(st, obj[n].dns, obj[n].zone), EntryPremise(Store, obj[n].dns, obj[n].zone))

\* the provider updates that can arrive during a reconcile
ProviderUpdates ==
    {<<>>} \cup {pc \in ChangingZones \X {"none", "valid", "invalid"} :
                    changes < MaxChanges /\ prov[pc[1]] # pc[2]}

HandleUpdateEntry(n) ==
    /\ n \in queue
    /\ obj[n].phase # "absent"
    /\ \E io \in BeginInputs(n), ord \in BeginOrders(n), lio \in LockInputs(n), rs \in LockReads(n),
          pc \in ProviderUpdates :
        \E f \in {RunUpdateEntry(n, io, ord, lio, rs, pc)} :
            /\ Commit(Requeue(f.st, n, f.status))
            /\ ev' = [Event(f.st, "HandleUpdateEntry", n) EXCEPT
                          !.res = f.status, !.dec = f.dec, !.deleted = f.deleted,
                          !.active = io.active, !.mismatch = Mismatch(n, f.st)]
            /\ faults' = faults + Cardinality(Failed(io)) + Cardinality(Failed(lio))
            /\ changes' = IF pc = <<>> THEN changes ELSE changes + 1
    /\ UNCHANGED <<txt, lw, rf, im, lk>>

\* state.EntryDeleted: the store it leaves
RunEntryDeletedKeepsEntry(n, ord) ==
    LET st0 == Unblock(Lock([Store EXCEPT !.queue = @ \ {n}]), n)
        old == st0.entries[n]
        zone == getProviderZoneForName(st0, old.dns)
        st1 == IF zone # "" THEN triggerHostedZone(st0, zone) ELSE st0
    IN  Unlock(IF IsNil(old) THEN st0 ELSE st1)
RunEntryDeleted(n, ord) ==
    LET st0 == Unblock(Lock([Store EXCEPT !.queue = @ \ {n}]), n)
        old == st0.entries[n]
        zone == getProviderZoneForName(st0, old.dns)
        st1 == IF zone # "" THEN triggerHostedZone(st0, zone) ELSE st0
    IN  Unlock(IF IsNil(old) THEN st0 ELSE cleanupEntry(st1, old, ord))

EntryDeleted(n) ==
    /\ n \in queue
    /\ obj[n].phase = "absent"
    /\ \E ord \in Orders(IndexKeys \ {n}) :
        \E st2 \in {RunEntryDeleted(n, ord)} :
            /\ Commit(st2)
            /\ ev' = [Event(st2, "EntryDeleted", n) EXCEPT
                          !.res = "succeeded",
                          !.path = IF n \in blockingEntries THEN "unblocked" ELSE ""]
    /\ UNCHANGED <<txt, lw, rf, im, lk, changes, faults>>

\* The zone reconciler on a triggered zone: the records of the valid entries
\* bound to the zone are applied, the records of the outdated entries of the
\* zone are deleted and only then their finalizers removed.  ok: the provider
\* accepts the batch.
ZoneEntries(z) ==
    {n \in Names : /\ ~IsNil(entries[n]) /\ Kind[n] # "lock"
                   /\ entries[n].zone = z /\ entries[n].valid /\ ~entries[n].duplicate}
ZoneOutdated(z) == {n \in Names : ~IsNil(outdated[n]) /\ outdated[n].activezone = z}

ZoneReconcile(z) ==
    /\ z \in ztrig
    /\ prov[z] = "valid"
    /\ \E ok \in {b \in Bools : b \/ faults < MaxFaults} :
        /\ faults' = IF ok THEN faults ELSE faults + 1
        /\ ztrig' = IF ok THEN ztrig \ {z} ELSE ztrig
        /\ entries' = [n \in Names |->
                        IF ok /\ n \in ZoneEntries(z)
                        THEN [entries[n] EXCEPT !.activezone = z, !.modified = FALSE]
                        ELSE entries[n]]
        /\ outdated' = [n \in Names |-> IF ok /\ n \in ZoneOutdated(z) THEN NilEntry ELSE outdated[n]]
        /\ obj' = [n \in Names |->
                        IF ok /\ n \in ZoneOutdated(z) /\ obj[n].phase = "deleting" THEN AbsentObj
                        ELSE IF ok /\ n \in ZoneEntries(z) /\ obj[n].phase # "absent"
                             THEN [obj[n] EXCEPT !.state = "ready", !.busy = "", !.zone = z]
                             ELSE obj[n]]
        /\ queue' = IF ok THEN queue \cup {n \in ZoneOutdated(z) : obj[n].phase = "deleting"} ELSE queue
        /\ ev' = [NoEv EXCEPT !.op = "ZoneReconcile", !.name = z,
                              !.res = IF ok THEN "succeeded" ELSE "delay",
                              !.kt = IF ok THEN ZoneOutdated(z) ELSE {},
                              !.deleted = ok /\ ZoneOutdated(z) # {}]
    /\ UNCHANGED <<dnsnames, prov, blockingEntries, txt, lw, rf, im, lk, changes>>

\* The control plane: objects are created, change their DNS name, are deleted
CreateObject(n, d, g) ==
    /\ changes < MaxChanges
    /\ changes' = changes + 1
    /\ obj[n].phase = "absent"
    /\ obj' = [obj EXCEPT ![n] = [AbsentObj EXCEPT !.phase = "live", !.dns = d, !.good = g]]
    /\ queue' = queue \cup {n}
    /\ ev' = [NoEv EXCEPT !.op = "CreateObject", !.name = n]
    /\ UNCHANGED <<entries, dnsnames, outdated, prov, ztrig, blockingEntries, txt, lw, rf, im, lk, faults>>

ChangeDNSName(n, d) ==
    /\ changes < MaxChanges
    /\ changes' = changes + 1
    /\ obj[n].phase = "live"
    /\ obj[n].dns # d
    /\ obj' = [obj EXCEPT ![n].dns = d]
    /\ queue' = queue \cup {n}
    /\ ev' = [NoEv EXCEPT !.op = "ChangeDNSName", !.name = n]
    /\ UNCHANGED <<entries, dnsnames, outdated, prov, ztrig, blockingEntries, txt, lw, rf, im, lk, faults>>

DeleteObject(n) ==
    /\ changes < MaxChanges
    /\ changes' = changes + 1
    /\ obj[n].phase = "live"
    /\ obj' = [obj EXCEPT ![n] = IF obj[n].fin THEN [@ EXCEPT !.phase = "deleting"] ELSE AbsentObj]
    /\ queue' = queue \cup {n}
    /\ ev' = [NoEv EXCEPT !.op = "DeleteObject", !.name = n]
    /\ UNCHANGED <<entries, dnsnames, outdated, prov, ztrig, blockingEntries, txt, lw, rf, im, lk, faults>>

\* The controller restarts: the index, the DNS-name map and the outdated set
\* start empty and every object is enqueued by the watch stream
Restart ==
    /\ changes < MaxChanges
    /\ changes' = changes + 1
    /\ \E n \in Names : ~IsNil(entries[n])
    /\ entries' = [n \in Names |-> NilEntry]
    /\ dnsnames' = [d \in DNSNames |-> NilRef]
    /\ outdated' = [n \in Names |-> NilEntry]
    /\ ztrig' = {}
    /\ queue' = {n \in Names : obj[n].phase # "absent"}
    /\ blockingEntries' = {}
    /\ ev' = [NoEv EXCEPT !.op = "Restart"]
    /\ UNCHANGED <<obj, prov, txt, lw, rf, im, lk, faults>>

\* A provider object appears, turns invalid or disappears; the entries of its
\* zone are enqueued
ProviderChange(z, s) ==
    /\ changes < MaxChanges
    /\ changes' = changes + 1
    /\ prov[z] # s
    /\ prov' = [prov EXCEPT ![z] = s]
    /\ queue' = queue \cup {n \in Names : obj[n].phase # "absent" /\ ZoneOf[obj[n].dns] = z}
    /\ blockingEntries' = addBlockingEntries(Store, z).blockingEntries
    /\ ev' = [NoEv EXCEPT !.op = "ProviderChange", !.name = z]
    /\ UNCHANGED <<obj, entries, dnsnames, outdated, ztrig, txt, lw, rf, im, lk, faults>>

----------------------------------------------------------------------------
(* The lock writers: each runs checkAndUpdateLock / checkAndDeleteLock for  *)
(* a lock of its own on the same TXT name, one provider call per step.      *)

Writers == {"w1", "w2"}

\* a writer: its lock (own), where its run stands (idle, or read: the record
\* set is read and not yet acted on), the record set it read, the entry's
\* updateRequired, its object's finalizer, status and deletion mark, and the
\* record set its last provider write replaced
IdleWriter == [own |-> EngineOwn, at |-> "idle", rs |-> EmptyRS, updateRequired |-> TRUE,
               fin |-> TRUE, state |-> "", deleting |-> FALSE, wrote |-> FALSE, over |-> EmptyRS]

LockEvent(op, w, res, dec) == [NoEv EXCEPT !.op = op, !.name = w, !.res = res, !.dec = dec]

\* lines 561-564 and 639-642: handler.GetRecordSet
LockRead(w) ==
    /\ lw[w].at = "idle"
    /\ lw[w].fin
    /\ lw[w].deleting \/ lw[w].updateRequired
    /\ \E ok \in {b \in Bools : b \/ faults < MaxFaults} :
        /\ faults' = IF ok THEN faults ELSE faults + 1
        /\ lw' = IF ok THEN [lw EXCEPT ![w].at = "read", ![w].rs = txt] ELSE lw
        /\ ev' = LockEvent("LockRead", w, DelayOnError(ok), IF ok THEN "" ELSE "read-failed")
    /\ UNCHANGED <<obj, entries, dnsnames, outdated, prov, ztrig, queue, blockingEntries, txt, changes, rf, im, lk>>

\* lines 565-632: the rest of checkAndUpdateLock on the record set read
LockUpdate(w) ==
    /\ lw[w].at = "read"
    /\ ~lw[w].deleting
    /\ LET dec == UpdateLockDecision(lw[w].rs, lw[w].own)
           idle == [lw EXCEPT ![w].at = "idle", ![w].rs = EmptyRS]
       IN  \E ok \in {b \in Bools : b \/ (faults < MaxFaults /\ dec \notin {"skip", "same"})} :
            /\ faults' = IF ok THEN faults ELSE faults + 1
            /\ txt' = IF dec = "write" /\ ok THEN NewRS(lw[w].own) ELSE txt
            /\ lw' = CASE dec \in {"stale-id", "stale-ts"} ->
                            IF ok THEN [idle EXCEPT ![w].state = "stale"] ELSE idle
                       [] dec = "skip" -> idle
                       [] dec = "write" ->
                            IF ok THEN [idle EXCEPT ![w].updateRequired = FALSE, ![w].wrote = TRUE,
                                                    ![w].over = txt]
                            ELSE idle
                       [] OTHER -> [idle EXCEPT ![w].updateRequired = FALSE]
            /\ ev' = LockEvent("LockUpdate", w, DelayOnError(ok), dec)
    /\ UNCHANGED <<obj, entries, dnsnames, outdated, prov, ztrig, queue, blockingEntries, changes, rf, im, lk>>

\* lines 643-657: the rest of checkAndDeleteLock on the record set read.
\* delOk: the provider accepts the delete; rmOk: the control plane accepts
\* the removal of the finalizer
LockDelete(w) ==
    /\ lw[w].at = "read"
    /\ lw[w].deleting
    /\ LET del == DeleteLockDecision(lw[w].rs, lw[w].own)
           idle == [lw EXCEPT ![w].at = "idle", ![w].rs = EmptyRS]
       IN  \E delOk \in {b \in Bools : b \/ (faults < MaxFaults /\ del)},
              rmOk \in {b \in Bools : b \/ faults < MaxFaults} :
            /\ delOk \/ rmOk
            /\ faults' = IF delOk /\ rmOk THEN faults ELSE faults + 1
            /\ txt' = IF del /\ delOk THEN EmptyRS ELSE txt
            /\ lw' = IF delOk /\ rmOk THEN [idle EXCEPT ![w].fin = FALSE] ELSE idle
            /\ ev' = [LockEvent("LockDelete", w, DelayOnError(delOk /\ rmOk),
                                IF ~delOk THEN "delete-failed"
                                ELSE IF rmOk THEN "removed" ELSE "remove-failed")
                          EXCEPT !.deleted = del /\ delOk, !.finrm = delOk /\ rmOk]
    /\ UNCHANGED <<obj, entries, dnsnames, outdated, prov, ztrig, queue, blockingEntries, changes, rf, im, lk>>

\* lines 738-743 of UpdateLockStates: the lock is to be written again
LockRefresh(w) ==
    /\ changes < MaxChanges
    /\ changes' = changes + 1
    /\ lw[w].fin
    /\ ~lw[w].deleting
    /\ ~lw[w].updateRequired
    /\ lw' = [lw EXCEPT ![w].updateRequired = TRUE]
    /\ ev' = LockEvent("LockRefresh", w, "", "")
    /\ UNCHANGED <<obj, entries, dnsnames, outdated, prov, ztrig, queue, blockingEntries, txt, faults, rf, im, lk>>

\* the control plane marks the writer's lock object for deletion
LockObjectDeleted(w) ==
    /\ changes < MaxChanges
    /\ changes' = changes + 1
    /\ lw[w].fin
    /\ ~lw[w].deleting
    /\ lw' = [lw EXCEPT ![w].deleting = TRUE]
    /\ ev' = LockEvent("LockObjectDeleted", w, "", "")
    /\ UNCHANGED <<obj, entries, dnsnames, outdated, prov, ztrig, queue, blockingEntries, txt, faults, rf, im, lk>>

----------------------------------------------------------------------------
(* The background refresh: one DNSLock of the controller, reconciled by    *)
(* HandleUpdateEntry (in steps: up to the return of AddEntryVersion, the   *)
(* provider read, the rest of checkAndUpdateLock) while the periodic       *)
(* UpdateLockStates looks its TXT record up (in steps: the lookup, the     *)
(* status write under e.lock, the updateRequired flip under e.lock).       *)

\* the clock advances by this many seconds between two lookups
TickLen == 70

\* the clock stops here
MaxTime == 281

\* now: the clock; startup: state.startupTime; down: the resolver fails;
\* indexed: the entry is in state.entries; updateRequired: of the entry;
\* state, ff: status.State and status.FirstFailedDNSLookup (0: nil) of the
\* object; queued: its key is enqueued; locked: HandleUpdateEntry holds
\* e.lock; hue, rs: where HandleUpdateEntry stands and the record set it
\* read; uls, upd, firstfailed: where UpdateLockStates stands and its locals;
\* staleid (history): checkAndUpdateLock has set the status to stale because
\* of the lock id of the record
IdleRefresh ==
    [now |-> 1, startup |-> 0, down |-> FALSE, indexed |-> FALSE, updateRequired |-> FALSE,
     state |-> "", ff |-> 0, queued |-> TRUE, locked |-> FALSE, hue |-> "idle", rs |-> EmptyRS,
     uls |-> "idle", upd |-> FALSE, firstfailed |-> 0, staleid |-> FALSE]

RefreshEvent(op, res, dec) == [NoEv EXCEPT !.op = op, !.name = "e3", !.res = res, !.dec = dec]

\* the variables the refresh does not touch
engine == <<obj, entries, dnsnames, outdated, prov, ztrig, queue, blockingEntries, lw, im, lk>>

\* time passes
Tick ==
    /\ rf.now + TickLen <= MaxTime
    /\ rf' = [rf EXCEPT !.now = @ + TickLen]
    /\ ev' = RefreshEvent("Tick", "", "")
    /\ UNCHANGED <<engine, txt, changes, faults>>

\* the resolver starts or stops to answer
ResolverChange ==
    /\ changes < MaxChanges
    /\ changes' = changes + 1
    /\ rf' = [rf EXCEPT !.down = ~@]
    /\ ev' = RefreshEvent("ResolverChange", "", "")
    /\ UNCHANGED <<engine, txt, faults>>

\* the controller starts again: the index is empty, every key is enqueued,
\* the objects and their status are those of the control plane
RestartController ==
    /\ changes < MaxChanges
    /\ changes' = changes + 1
    /\ rf' = [IdleRefresh EXCEPT !.now = rf.now + 1, !.startup = rf.now, !.down = rf.down,
                                 !.state = rf.state, !.ff = rf.ff, !.staleid = rf.staleid]
    /\ ev' = RefreshEvent("RestartController", "", "")
    /\ UNCHANGED <<engine, txt, faults>>

\* HandleUpdateEntry returns: deferred old.lock.Unlock(), the key is enqueued
\* again unless the reconcile succeeded
Return(r, status) ==
    [r EXCEPT !.hue = "idle", !.locked = FALSE, !.rs = EmptyRS,
              !.queued = @ \/ status # "succeeded"]

\* lines 426-450: old := GetEntry; old.lock.Lock() if old != nil;
\* AddEntryVersion puts a new entry into the index
RefreshBegin ==
    /\ rf.queued
    /\ rf.hue = "idle"
    /\ rf' = [rf EXCEPT !.queued = FALSE, !.hue = "added", !.locked = rf.indexed,
                        !.indexed = TRUE,
                        !.updateRequired = IF rf.indexed THEN @ ELSE TRUE]
    /\ ev' = RefreshEvent("RefreshBegin", "", "")
    /\ UNCHANGED <<engine, txt, changes, faults>>

\* lines 545-564 of checkAndUpdateLock: handler.GetRecordSet
RefreshRead ==
    /\ rf.hue = "added"
    /\ IF ~rf.updateRequired
       THEN /\ rf' = Return(rf, "succeeded")
            /\ ev' = RefreshEvent("RefreshRead", "succeeded", "not-required")
            /\ UNCHANGED faults
       ELSE \E ok \in {b \in Bools : b \/ faults < MaxFaults} :
            /\ faults' = IF ok THEN faults ELSE faults + 1
            /\ rf' = IF ok THEN [rf EXCEPT !.hue = "read", !.rs = txt] ELSE Return(rf, "delay")
            /\ ev' = RefreshEvent("RefreshRead", DelayOnError(ok), IF ok THEN "" ELSE "read-failed")
    /\ UNCHANGED <<engine, txt, changes>>

\* lines 565-632 of checkAndUpdateLock on the record set read, with the
\* decision dec.  wOk: the provider accepts the write; uOk: the control plane
\* accepts the status
UpdateLockEarlyClear(r, dec, wOk, uOk) ==
    CASE dec \in {"stale-id", "stale-ts"} ->
            IF uOk THEN Return([r EXCEPT !.state = "stale", !.staleid = @ \/ dec = "stale-id"], "succeeded")
            ELSE Return(r, "delay")
      [] dec = "skip" -> Return(r, "succeeded")
      [] OTHER ->
            IF uOk /\ wOk
            THEN Return([r EXCEPT !.updateRequired = FALSE, !.ff = 0], "succeeded")
            ELSE Return([r EXCEPT !.updateRequired = FALSE], "delay")
UpdateLock(r, dec, wOk, uOk) ==
    CASE dec \in {"stale-id", "stale-ts"} ->
            IF uOk THEN Return([r EXCEPT !.state = "stale", !.staleid = @ \/ dec = "stale-id"], "succeeded")
            ELSE Return(r, "delay")
      [] dec = "skip" -> Return(r, "succeeded")
      [] ~wOk -> Return(r, "delay")
      [] OTHER ->
            IF uOk
            THEN Return([r EXCEPT !.updateRequired = FALSE, !.ff = 0], "succeeded")
            ELSE Return([r EXCEPT !.updateRequired = FALSE], "delay")

RefreshUpdate ==
    /\ rf.hue = "read"
    /\ LET dec == UpdateLockDecision(rf.rs, EngineOwn)
       IN  \E wOk \in {b \in Bools : b \/ (faults < MaxFaults /\ dec = "write")},
              uOk \in {b \in Bools : b \/ (faults < MaxFaults /\ dec # "skip")} :
            /\ wOk \/ uOk
            /\ faults' = IF wOk /\ uOk THEN faults ELSE faults + 1
            /\ txt' = IF dec = "write" /\ wOk THEN NewRS(EngineOwn) ELSE txt
            /\ rf' = UpdateLock(rf, dec, wOk, uOk)
            /\ ev' = RefreshEvent("RefreshUpdate",
                                  IF dec = "skip" \/ (uOk /\ (wOk \/ dec \in {"stale-id", "stale-ts"}))
                                  THEN "succeeded" ELSE "delay",
                                  dec)
    /\ UNCHANGED <<engine, changes>>

\* lines 696-712 of UpdateLockStates: what follows from a failed lookup at
\* the time r.now, with the status of the object
FailedLookupNoExpiry(r) ==
    IF r.ff # 0 /\ r.ff > r.startup
    THEN [firstfailed |-> r.ff, updateRequired |-> FALSE]
    ELSE [firstfailed |-> r.now, updateRequired |-> r.state # "ready"]
FailedLookup(r) ==
    IF r.ff # 0 /\ r.ff > r.startup
    THEN [firstfailed |-> r.ff, updateRequired |-> r.now - r.ff > EngineOwn.ttl * 2]
    ELSE [firstfailed |-> r.now, updateRequired |-> r.state # "ready"]

\* lines 660-713 of UpdateLockStates: the entry is in the snapshot of the
\* index; net.LookupTXT
LookupTXT ==
    /\ rf.uls = "idle"
    /\ rf.indexed
    /\ rf' = IF rf.down
             THEN [rf EXCEPT !.uls = "looked", !.firstfailed = FailedLookup(rf).firstfailed,
                             !.upd = FailedLookup(rf).updateRequired]
             ELSE [rf EXCEPT !.uls = "looked", !.firstfailed = 0, !.upd = FALSE]
    /\ ev' = RefreshEvent("LookupTXT", IF rf.down THEN "failed" ELSE "succeeded", "")
    /\ UNCHANGED <<engine, txt, changes, faults>>

\* lines 716-735 of UpdateLockStates: e.lock.Lock(); ModifyStatus; e.lock.Unlock()
WriteLockStatus ==
    /\ rf.uls = "looked"
    /\ ~rf.locked
    /\ rf' = [rf EXCEPT !.state = IF rf.firstfailed # 0 THEN "stale" ELSE "ready",
                        !.ff = rf.firstfailed,
                        !.uls = IF rf.upd THEN "written" ELSE "idle"]
    /\ ev' = RefreshEvent("WriteLockStatus", "", "")
    /\ UNCHANGED <<engine, txt, changes, faults>>

\* lines 737-742 of UpdateLockStates: e.updateRequired = true under e.lock,
\* this.context.Enqueue(e.object)
RequireUpdate ==
    /\ rf.uls = "written"
    /\ ~rf.locked
    /\ rf' = [rf EXCEPT !.updateRequired = TRUE, !.queued = TRUE, !.uls = "idle", !.upd = FALSE]
    /\ ev' = RefreshEvent("RequireUpdate", "", "")
    /\ UNCHANGED <<engine, txt, changes, faults>>

----------------------------------------------------------------------------
(* _i_object.I_modify: one call, a step for each call it makes to the      *)
(* modifier and to the resource (I_get, I_create, I_update or              *)
(* I_updateStatus), each of which may answer with an error.                *)

\* line 815: cnt := 10
cnt == 10

\* create, status_only: the arguments; pc: the call to be made next; cnt,
\* lasterr, mod: the locals; done, err: it has returned (mod, err); history:
\* updates: the I_update / I_updateStatus calls made so far, conflicts: how
\* many of them failed with a conflict, creates: the I_create calls made, op,
\* out: the last call and its answer
IdleModify ==
    [create |-> FALSE, status_only |-> FALSE, pc |-> "modifier", cnt |-> cnt, lasterr |-> "",
     mod |-> FALSE, done |-> FALSE, err |-> "", updates |-> 0, conflicts |-> 0, creates |-> 0,
     op |-> "", out |-> ""]

Called(m, op, out) == [m EXCEPT !.op = op, !.out = out]

\* return mod, err
Returned(m, mod, err) == [m EXCEPT !.pc = "", !.done = TRUE, !.mod = mod, !.err = err]

ModifyStep(m) ==
    /\ im' = m
    /\ ev' = [NoEv EXCEPT !.op = m.op, !.res = m.out]
    /\ UNCHANGED <<obj, entries, dnsnames, outdated, prov, ztrig, queue, blockingEntries, txt, lw, rf, lk, changes, faults>>

\* lines 817-822: with create, the object is read first
CreateGet ==
    /\ im.pc = "create-get"
    /\ \E e \in {"", "not-found", "other"} :
        ModifyStep(LET m == Called(im, "I_get", e)
                   IN  CASE e = "" -> [m EXCEPT !.pc = "modifier"]
                         [] e = "not-found" -> [m EXCEPT !.pc = "create-modifier"]
                         [] OTHER -> Returned(m, FALSE, e))

\* lines 823-826: the modifier on an object that does not exist yet
CreateModifier ==
    /\ im.pc = "create-modifier"
    /\ \E mod \in Bools, e \in {"", "modifier"} :
        ModifyStep(LET m == Called(im, "modifier", e)
                   IN  IF e # "" THEN Returned(m, FALSE, e) ELSE [m EXCEPT !.pc = "create"])

\* lines 827-834: I_create
I_create ==
    /\ im.pc = "create"
    /\ \E e \in {"", "already-exists", "other"} :
        ModifyStep(LET m == [Called(im, "I_create", e) EXCEPT !.creates = @ + 1]
                   IN  CASE e = "" -> Returned(m, TRUE, "")
                         [] e = "already-exists" -> [m EXCEPT !.pc = "create-reget"]
                         [] OTHER -> Returned(m, FALSE, e))

\* lines 835-838: the object exists after all and is read
CreateReGet ==
    /\ im.pc = "create-reget"
    /\ \E e \in {"", "not-found", "other"} :
        ModifyStep(LET m == Called(im, "I_get", e)
                   IN  IF e # "" THEN Returned(m, FALSE, e) ELSE [m EXCEPT !.pc = "modifier"])

\* lines 842-847 and 862-864: the modifier in the loop
Modifier ==
    /\ im.pc = "modifier"
    /\ \E mod \in Bools, e \in {"", "modifier"} :
        ModifyStep(LET m == Called(im, "modifier", IF mod THEN e ELSE "unmodified")
                   IN  IF ~mod \/ e # "" THEN Returned(m, mod, e)
                       ELSE [m EXCEPT !.pc = "update", !.mod = TRUE])

\* lines 848-859: I_updateStatus or I_update
I_updateRetryAny(m, e) ==
    CASE e = "" -> Returned(m, m.mod, "")
      [] OTHER -> [m EXCEPT !.pc = "get", !.lasterr = e]
I_updateResult(m, e) ==
    CASE e = "" -> Returned(m, m.mod, "")
      [] e = "conflict" -> [m EXCEPT !.pc = "get", !.lasterr = e]
      [] OTHER -> Returned([m EXCEPT !.lasterr = e], m.mod, e)

I_update ==
    /\ im.pc = "update"
    /\ \E e \in {"", "conflict", "other"} :
        ModifyStep(I_updateResult(
                     [Called(im, IF im.status_only THEN "I_updateStatus" ELSE "I_update", e)
                        EXCEPT !.updates = @ + 1,
                               !.conflicts = IF e = "conflict" THEN @ + 1 ELSE @], e))

\* lines 860-868: the object is read again after a conflict; cnt--, and the
\* loop ends with the last error when cnt is used up
I_get ==
    /\ im.pc = "get"
    /\ \E e \in {"", "not-found", "other"} :
        ModifyStep(LET m == Called(im, "I_get", e)
                   IN  IF e # "" THEN Returned(m, m.mod, e)
                       ELSE IF m.cnt - 1 > 0
                            THEN [m EXCEPT !.cnt = @ - 1, !.pc = "modifier"]
                            ELSE Returned([m EXCEPT !.cnt = @ - 1], TRUE, m.lasterr))

----------------------------------------------------------------------------
(* The locks: state.lock (a read-write lock on which a waiting writer holds *)
(* back new readers) and the lock of each entry, taken and released by     *)
(* workers that each run one operation of the state.                       *)

Workers == {"t1", "t2", "t3"}

\* the lock operations a worker makes, in order: on state.lock (RLock,
\* RUnlock, Lock, Unlock) and on the lock of the entry named (elock, eunlock)
Op(o, n) == [op |-> o, on |-> n]
Read == <<Op("RLock", ""), Op("RUnlock", "")>>
Write == <<Op("Lock", ""), Op("Unlock", "")>>

\* state.GetEntry (lines 258-262) and state.GetEntriesByOwner (218-234)
GetEntryLocks == Read
GetEntriesByOwnerLocks == Read

\* state.HandleUpdateEntry (426-482) for the object n; indexed: GetEntry
\* returns an entry, whose lock is taken until the return.  GetEntry,
\* EntryPremise, AddEntryVersion; a lock-kind entry returns from the lock
\* branch, another one goes on with SmartInfof, TriggerHostedZone and the
\* second EntryPremise
HandleUpdateEntryLocks(n, indexed) ==
    LET body == GetEntryLocks
                    \o (IF indexed THEN <<Op("elock", n)>> ELSE <<>>)
                    \o Read \o Write
                    \o (IF Kind[n] = "lock" THEN <<>> ELSE Read \o Write \o Read)
    IN  body \o (IF indexed THEN <<Op("eunlock", n)>> ELSE <<>>)

\* state.EntryDeleted (484-509)
EntryDeletedLocks == Write

\* UpdateLockStates, had it taken the entry's lock inside the snapshot
UpdateLockStatesInSnapshot ==
    <<Op("RLock", ""), Op("elock", "e3"), Op("eunlock", "e3"), Op("elock", "e3"), Op("eunlock", "e3"),
      Op("RUnlock", "")>>
\* state.UpdateLockStates (660-745): the snapshot of the index under RLock,
\* then for the lock entry the status under e.lock and updateRequired under
\* e.lock
UpdateLockStatesLocks ==
    Read \o <<Op("elock", "e3"), Op("eunlock", "e3"), Op("elock", "e3"), Op("eunlock", "e3")>>

\* the operations a worker may run
Programs ==
    {HandleUpdateEntryLocks(n, i) : n \in {"e1", "e3"}, i \in Bools}
        \cup {EntryDeletedLocks, UpdateLockStatesLocks, GetEntryLocks, GetEntriesByOwnerLocks}

\* writer, readers, waiting: the worker that holds state.lock for writing,
\* those that hold it for reading, those that wait in Lock(); elock: the
\* holder of each entry's lock; prog, pc: each worker's operation and where
\* it stands
IdleLocks ==
    [writer |-> "", readers |-> {}, waiting |-> {}, elock |-> [n \in Names |-> ""],
     prog |-> [w \in Workers |-> <<>>], pc |-> [w \in Workers |-> 1]]

\* the lock operation the worker w makes next
NextOp(l, w) == IF l.pc[w] <= Len(l.prog[w]) THEN l.prog[w][l.pc[w]] ELSE Op("", "")

\* the worker holds state.lock
HoldsStateLock(l, w) == l.writer = w \/ w \in l.readers

LockingStep(w, l) ==
    /\ lk' = l
    /\ ev' = [NoEv EXCEPT !.op = NextOp(lk, w).op, !.name = w]
    /\ UNCHANGED <<obj, entries, dnsnames, outdated, prov, ztrig, queue, blockingEntries, txt, lw, rf, im,
                   changes, faults>>

Advance(l, w) == [l EXCEPT !.pc[w] = @ + 1]

\* this.lock.RLock(): waits while a writer holds the lock or waits for it
StateRLock(w) ==
    /\ NextOp(lk, w).op = "RLock"
    /\ lk.writer = "" /\ lk.waiting = {}
    /\ LockingStep(w, [Advance(lk, w) EXCEPT !.readers = @ \cup {w}])

StateRUnlock(w) ==
    /\ NextOp(lk, w).op = "RUnlock"
    /\ LockingStep(w, [Advance(lk, w) EXCEPT !.readers = @ \ {w}])

\* this.lock.Lock(): the writer announces itself and waits for the readers
\* and the writer before it
StateLock(w) ==
    /\ NextOp(lk, w).op = "Lock"
    /\ IF lk.writer = "" /\ lk.readers = {}
       THEN LockingStep(w, [Advance(lk, w) EXCEPT !.writer = w, !.waiting = @ \ {w}])
       ELSE w \notin lk.waiting /\ LockingStep(w, [lk EXCEPT !.waiting = @ \cup {w}])

StateUnlock(w) ==
    /\ NextOp(lk, w).op = "Unlock"
    /\ LockingStep(w, [Advance(lk, w) EXCEPT !.writer = ""])

\* e.lock.Lock() / e.lock.Unlock()
EntryLock(w) ==
    /\ NextOp(lk, w).op = "elock"
    /\ lk.elock[NextOp(lk, w).on] = ""
    /\ LockingStep(w, [Advance(lk, w) EXCEPT !.elock[NextOp(lk, w).on] = w])

EntryUnlock(w) ==
    /\ NextOp(lk, w).op = "eunlock"
    /\ LockingStep(w, [Advance(lk, w) EXCEPT !.elock[NextOp(lk, w).on] = ""])

----------------------------------------------------------------------------

InitEngine ==
    /\ obj = [n \in Names |-> AbsentObj]
    /\ entries = [n \in Names |-> NilEntry]
    /\ dnsnames = [d \in DNSNames |-> NilRef]
    /\ outdated = [n \in Names |-> NilEntry]
    /\ prov = [z \in Zones |-> "valid"]
    /\ ztrig = {}
    /\ queue = {}
    /\ blockingEntries = {}
    /\ ev = NoEv
    /\ changes = 0
    /\ faults = 0

Init ==
    /\ InitEngine
    /\ txt = EmptyRS
    /\ lw = [w \in Writers |-> IdleWriter]
    /\ rf = IdleRefresh
    /\ im = IdleModify
    /\ lk = IdleLocks

\* the writers hold any of the locks of the model, and the provider any of
\* the record sets
InitLock ==
    /\ InitEngine
    /\ txt \in RecordSets
    /\ lw \in [Writers -> {[IdleWriter EXCEPT !.own = o] : o \in Owns}]
    /\ rf = IdleRefresh
    /\ im = IdleModify
    /\ lk = IdleLocks

Next ==
    \/ \E n \in Names : HandleUpdateEntry(n)
    \/ \E n \in Names : EntryDeleted(n)
    \/ \E z \in Zones : ZoneReconcile(z)
    \/ \E n \in Names : \E d \in DNSFor(n), g \in GoodFor(n) : CreateObject(n, d, g)
    \/ \E n \in Names : \E d \in DNSFor(n) : ChangeDNSName(n, d)
    \/ \E n \in Names : DeleteObject(n)
    \/ \E z \in ChangingZones, s \in {"none", "valid", "invalid"} : ProviderChange(z, s)
    \/ Restart

Spec == Init /\ [][Next]_vars

\* HandleUpdateEntry(n) can take a step that changes the state: the key is
\* enqueued and the last step was not a failed reconcile of the same object
\* (which a further reconcile would only repeat)
CanUpdate(n) ==
    /\ n \in queue
    /\ obj[n].phase # "absent"
    /\ ~(ev.op = "HandleUpdateEntry" /\ ev.name = n /\ ev.res = "failed")

\* the work queue hands every enqueued key to a worker, and every triggered
\* zone of a valid provider is reconciled: weak fairness of the three steps,
\* with the enabling condition of each step written out
Fairness ==
    /\ \A n \in Names :
        /\ <>[]CanUpdate(n) => []<><<HandleUpdateEntry(n)>>_vars
        /\ <>[](n \in queue /\ obj[n].phase = "absent") => []<><<EntryDeleted(n)>>_vars
    /\ \A z \in Zones : <>[](z \in ztrig /\ prov[z] = "valid") => []<><<ZoneReconcile(z)>>_vars

SpecFair == Spec /\ Fairness

NextLock ==
    \/ \E w \in Writers : LockRead(w)
    \/ \E w \in Writers : LockUpdate(w)
    \/ \E w \in Writers : LockDelete(w)
    \/ \E w \in Writers : LockRefresh(w)
    \/ \E w \in Writers : LockObjectDeleted(w)

SpecLock == InitLock /\ [][NextLock]_vars

\* the provider holds no record, the lock's own record, or the record of
\* another lock id
InitRefresh ==
    /\ InitEngine
    /\ txt \in EngineReads
    /\ lw = [w \in Writers |-> IdleWriter]
    /\ rf = IdleRefresh
    /\ im = IdleModify
    /\ lk = IdleLocks

NextRefresh ==
    \/ Tick
    \/ ResolverChange
    \/ RestartController
    \/ RefreshBegin
    \/ RefreshRead
    \/ RefreshUpdate
    \/ LookupTXT
    \/ WriteLockStatus
    \/ RequireUpdate

SpecRefresh == InitRefresh /\ [][NextRefresh]_vars

\* a call of I_modify with any arguments, after lines 813-815
InitModify ==
    /\ InitEngine
    /\ txt = EmptyRS
    /\ lw = [w \in Writers |-> IdleWriter]
    /\ rf = IdleRefresh
    /\ lk = IdleLocks
    /\ im \in {[IdleModify EXCEPT !.create = c, !.status_only = so,
                                  !.pc = IF c THEN "create-get" ELSE "modifier"] : c \in Bools, so \in Bools}

NextModify ==
    \/ CreateGet
    \/ CreateModifier
    \/ I_create
    \/ CreateReGet
    \/ Modifier
    \/ I_update
    \/ I_get

SpecModify == InitModify /\ [][NextModify]_vars

\* every worker runs one of the operations
InitLocking ==
    /\ InitEngine
    /\ txt = EmptyRS
    /\ lw = [w \in Writers |-> IdleWriter]
    /\ rf = IdleRefresh
    /\ im = IdleModify
    /\ lk \in {[IdleLocks EXCEPT !.prog = p] : p \in [Workers -> Programs]}

NextLocking ==
    \E w \in Workers :
        \/ StateRLock(w)
        \/ StateRUnlock(w)
        \/ StateLock(w)
        \/ StateUnlock(w)
        \/ EntryLock(w)
        \/ EntryUnlock(w)

SpecLocking == InitLocking /\ [][NextLocking]_vars

----------------------------------------------------------------------------
(* cleanupEntry on its own: the index holds any entries, each of them the    *)
(* holder of its DNS name or a duplicate waiting for it, and cleanupEntry is *)
(* applied to one indexed entry after the other, in any order of the range.  *)

\* an indexed entry of the object n on the DNS name d
IndexedEntry(n, d, dup) ==
    [id |-> 1, name |-> n, dns |-> d, valid |-> TRUE, duplicate |-> dup, modified |-> ~dup,
     activezone |-> "", zone |-> ZoneOf[d], updateRequired |-> Kind[n] = "lock"]

\* the indexes in which no DNS name has two entries that are not duplicates
IndexStates ==
    {ents \in [Names -> {NilEntry} \cup {IndexedEntry(n, d, dup) : n \in Names, d \in DNSNames, dup \in Bools}] :
        /\ \A n \in Names : ~IsNil(ents[n]) => ents[n].name = n
        /\ \A n, m \in Names :
            (n # m /\ ~IsNil(ents[n]) /\ ~IsNil(ents[m]) /\ ents[n].dns = ents[m].dns)
                => ents[n].duplicate \/ ents[m].duplicate}

\* the holder of the DNS name d in the index ents, nil if there is none
HolderRef(ents, d) ==
    IF \E n \in Names : ~IsNil(ents[n]) /\ ents[n].dns = d /\ ~ents[n].duplicate
    THEN Ref(ents[CHOOSE n \in Names : ~IsNil(ents[n]) /\ ents[n].dns = d /\ ~ents[n].duplicate])
    ELSE NilRef

InitCleanup ==
    /\ entries \in IndexStates
    /\ dnsnames = [d \in DNSNames |-> HolderRef(entries, d)]
    /\ obj = [n \in Names |->
                IF IsNil(entries[n]) THEN AbsentObj
                ELSE [AbsentObj EXCEPT !.phase = "live", !.fin = TRUE, !.dns = entries[n].dns]]
    /\ outdated = [n \in Names |-> NilEntry]
    /\ prov = [z \in Zones |-> "valid"]
    /\ ztrig = {}
    /\ queue = {}
    /\ blockingEntries = {}
    /\ ev = NoEv
    /\ changes = 0
    /\ faults = 0
    /\ txt = EmptyRS
    /\ lw = [w \in Writers |-> IdleWriter]
    /\ rf = IdleRefresh
    /\ im = IdleModify
    /\ lk = IdleLocks

\* lines 296, 341, 504: cleanupEntry is called on the indexed entry of n
CleanupStep(n) ==
    /\ ~IsNil(entries[n])
    /\ \E ord \in Orders(IndexKeys \ {n}) :
        \E st \in {cleanupEntry(Store, entries[n], ord)} :
            /\ Commit(st)
            /\ ev' = Event(st, "cleanupEntry", n)
    /\ UNCHANGED <<txt, lw, rf, im, lk, changes, faults>>

NextCleanup == \E n \in Names : CleanupStep(n)

SpecCleanup == InitCleanup /\ [][NextCleanup]_vars

----------------------------------------------------------------------------
(* Properties of the lock protocol (SpecLock) *)

\* the record set carries a timestamp that is strictly after the lock's own
TsAfter(rs, own) ==
    /\ Len(rs.recs) # 0
    /\ ParseInt(GetAttr(rs, "timestamp")).ok
    /\ ParseInt(GetAttr(rs, "timestamp")).i > own.ts

\* the record set carries a lock id, and it is not the lock's own
ForeignLockId(rs, own) ==
    Len(rs.recs) # 0 /\ GetAttr(rs, "lockid") # "" /\ GetAttr(rs, "lockid") # own.lockid

\* C6: lock monotonicity, as the specification states it.  Under every
\* interleaving of the reads and the writes of the writers, no writer has
\* replaced a record set whose timestamp was strictly after its own.
LockMonotonicity ==
    \A w \in Writers : lw[w].wrote => ~TsAfter(lw[w].over, lw[w].own)

\* C7: mutual exclusion of the locks, as the specification states it.  Of two
\* writers with different lock ids, neither has replaced a record set that
\* carried the lock id of the other.
LockMutualExclusion ==
    \A w, x \in Writers :
        (lw[w].own.lockid # lw[x].own.lockid /\ lw[w].wrote)
            => GetAttr(lw[w].over, "lockid") # lw[x].own.lockid

\* C8: a run of checkAndUpdateLock that has read a record set with a lock id
\* that is present and differs from its own writes nothing to the provider and
\* leaves the entry's updateRequired as it is; it sets the status stale, or,
\* if the control plane refuses that write, ends with a delayed retry.
StaleOnForeignLockId ==
    [][\A w \in Writers :
        (ev'.op = "LockUpdate" /\ ev'.name = w /\ ForeignLockId(lw[w].rs, lw[w].own))
            => /\ txt' = txt
               /\ lw'[w].wrote = lw[w].wrote
               /\ lw'[w].updateRequired = lw[w].updateRequired
               /\ ev'.dec = "stale-id"
               /\ IF ev'.res = "succeeded" THEN lw'[w].state = "stale"
                  ELSE ev'.res = "delay" /\ lw'[w].state = lw[w].state]_vars

\* C8 witness: a writer found a foreign lock id and went stale
StaleOnForeignLockIdWitness ==
    /\ ev.op = "LockUpdate"
    /\ ev.dec = "stale-id"
    /\ ev.res = "succeeded"
    /\ lw[ev.name].state = "stale"
    /\ ForeignLockId(txt, lw[ev.name].own)

\* C9: a run of checkAndDeleteLock deletes the record set only if the record
\* set it read carries its own lock id and no timestamp after its own; it
\* removes the finalizer only in a run whose provider read succeeded and whose
\* provider delete, if one was due, succeeded, and a run in which the read or
\* the delete failed keeps the finalizer and ends with a delayed retry.
DeleteOnlyOwnLock ==
    [][\A w \in Writers :
        /\ (ev'.op = "LockDelete" /\ ev'.name = w)
            => /\ ev'.deleted => /\ GetAttr(lw[w].rs, "lockid") = lw[w].own.lockid
                                 /\ ~TsAfter(lw[w].rs, lw[w].own)
                                 /\ txt' = EmptyRS
               /\ ~ev'.deleted => txt' = txt
               /\ ev'.finrm = (lw[w].fin /\ ~lw'[w].fin)
               /\ ev'.finrm => ev'.res = "succeeded" /\ ev'.dec = "removed"
               /\ ev'.dec = "delete-failed" => ~ev'.finrm /\ ev'.res = "delay" /\ lw'[w].fin
        /\ (ev'.op = "LockRead" /\ ev'.name = w /\ lw[w].deleting /\ ev'.res = "delay")
            => lw'[w].fin /\ txt' = txt /\ lw'[w].at = "idle"
        /\ (lw[w].deleting /\ lw[w].fin /\ ~lw'[w].fin) => ev'.op = "LockDelete" /\ lw[w].at = "read"]_vars

\* C9 witness: a run deleted its own record set and then removed the finalizer
DeleteOnlyOwnLockWitness ==
    /\ ev.op = "LockDelete"
    /\ ev.deleted
    /\ ev.finrm
    /\ ~lw[ev.name].fin
    /\ txt = EmptyRS

----------------------------------------------------------------------------
(* Properties of the entry engine (Spec) *)

\* the indexed entries that claim the DNS name d, valid and not duplicate
Claimants(d) ==
    {n \in Names : ~IsNil(entries[n]) /\ entries[n].dns = d /\ entries[n].valid /\ ~entries[n].duplicate}

\* the entry object that dnsnames[d] points to is in the index
ClaimIndexed(d) == dnsnames[d] # NilRef /\ Ref(entries[dnsnames[d][1]]) = dnsnames[d]

\* C1: unique active claim, as the specification states it.  Every DNS name
\* that a valid, non-duplicate indexed entry claims has its active claim set,
\* and the claim points to a valid, non-duplicate entry of the index.
UniqueActiveClaim ==
    \A d \in DNSNames :
        Claimants(d) # {} => ClaimIndexed(d) /\ dnsnames[d][1] \in Claimants(d)

\* the object n is not deleting and its entry, as last reconciled, is managed
\* and claims the DNS name d
ReconciledOn(n, d) ==
    /\ obj[n].phase = "live"
    /\ obj[n].dns = d
    /\ ~IsNil(entries[n])
    /\ entries[n].dns = d
    /\ entries[n].zone # ""

\* a and b are the two entries on the DNS name d, both have been reconciled
\* on it, and a is the earlier
Contenders(a, b, d) ==
    /\ a # b
    /\ ReconciledOn(a, d)
    /\ ReconciledOn(b, d)
    /\ Before(entries[a], entries[b])
    /\ \A c \in Names \ {a, b} : IsNil(entries[c]) \/ entries[c].dns # d

Earliest(S) ==
    {n \in S : \A m \in S \ {n} : Before([name |-> n], [name |-> m])}

\* C3: a run of cleanupEntry(e) leaves e out of the index.  If e held its DNS
\* name, the name is released and the keys triggered are exactly the earliest
\* of the indexed duplicates on that name (none if there is no duplicate),
\* whatever the order of the range over the index; if e did not hold it, the
\* DNS-name map is as before and nothing is triggered.
CleanupPromotesEarliest ==
    ev.cl.ran
        => /\ ~ev.cl.inIndex
           /\ IF ev.cl.held
              THEN ev.cl.released /\ ev.cl.trig = Earliest(ev.cl.cands)
              ELSE ev.cl.same /\ ev.cl.trig = {}

\* C3 witness: the holder of a name with two waiting duplicates was cleaned
\* up, and the earlier of the two was triggered
CleanupPromotesEarliestWitness ==
    /\ ev.cl.ran
    /\ ev.cl.held
    /\ ev.cl.cands = {"e1", "e3"}
    /\ ev.cl.trig = {"e3"}
    /\ dnsnames["n1"] = NilRef

\* C4: the finalizer precedes every provider-side action, as the
\* specification states it.  An indexed entry with an active zone belongs to
\* an object that carries the finalizer, and a reconcile in which SetFinalizer
\* failed triggers no zone.
FinalizerBeforeProvider ==
    /\ \A n \in Names :
        (~IsNil(entries[n]) /\ entries[n].activezone # "" /\ obj[n].phase # "absent") => obj[n].fin
    /\ (ev.op = "HandleUpdateEntry" /\ ev.path = "setfin-failed") => ev.zt = {}

\* the finalizer of the object n is removed in this step
FinalizerRemoved(n) == obj[n].fin /\ ~obj'[n].fin

\* a reconcile of n now finds a deleting object with the finalizer whose
\* entry is valid and has a known active zone
DeletingActive(n) ==
    LET v == Setup(Store, n, EntryPremise(Store, obj[n].dns, obj[n].zone))
        new == IF IsNil(entries[n]) THEN NewEntry(Store, v) ELSE Update(Store, entries[n], v)
    IN  /\ obj[n].phase = "deleting"
        /\ obj[n].fin
        /\ new.valid
        /\ new.activezone \in KnownZones(Store)

\* the step is a zone reconcile whose provider delete succeeded for n
ProviderDeleted(n) == ev'.op = "ZoneReconcile" /\ ev'.deleted /\ n \in ev'.kt

\* C5: deletion waits for the provider, as the specification states it.  A
\* reconcile of a deleting object whose entry, of any kind, is valid, has a
\* known active zone and whose object holds the finalizer puts the entry into
\* the outdated set and does not remove the finalizer; as long as the object
\* is in that condition, only a zone reconcile whose provider delete
\* succeeded removes the finalizer.
DeleteAwaitsProvider ==
    [][\A n \in Names :
        DeletingActive(n)
            => /\ (ev'.op = "HandleUpdateEntry" /\ ev'.name = n)
                    => ev'.path = "outdated" /\ ~IsNil(outdated'[n]) /\ ev'.res = "succeeded"
               /\ FinalizerRemoved(n) => ProviderDeleted(n)]_vars

\* C5, amended: the same for an entry that is not a lock; for a lock the
\* entry is put into the outdated set as well, but checkAndDeleteLock, run in
\* the same reconcile, removes the finalizer as soon as its provider read and
\* the delete it decides on have succeeded.
DeleteAwaitsProviderOrLock ==
    [][\A n \in Names :
        DeletingActive(n)
            => /\ (ev'.op = "HandleUpdateEntry" /\ ev'.name = n)
                    => /\ ev'.path = "outdated"
                       /\ ~IsNil(outdated'[n])
                       /\ IF Kind[n] = "lock"
                          THEN FinalizerRemoved(n) <=> (ev'.dec = "removed" /\ ev'.res = "succeeded")
                          ELSE ev'.res = "succeeded"
               /\ FinalizerRemoved(n)
                    => \/ ProviderDeleted(n)
                       \/ Kind[n] = "lock" /\ ev'.op = "HandleUpdateEntry" /\ ev'.name = n]_vars

\* C5 witness: an entry that is not a lock waited in the outdated set with
\* its finalizer and the zone reconcile has deleted its record
DeleteAwaitsProviderOrLockWitness ==
    /\ ev.op = "ZoneReconcile"
    /\ ev.deleted
    /\ \E n \in ev.kt : Kind[n] # "lock" /\ obj[n].phase = "absent" /\ IsNil(outdated[n])

\* the indexed entry of n is marked duplicate
IsDuplicate(ents, n) == ~IsNil(ents[n]) /\ ents[n].duplicate

\* C10: a duplicate is not modified and triggers no zone, as the
\* specification states it.  Every indexed duplicate is not modified, and a
\* reconcile that leaves the object's entry a duplicate has triggered no zone.
DuplicateNeverTriggers ==
    /\ \A n \in Names : IsDuplicate(entries, n) => ~entries[n].modified
    /\ (ev.op = "HandleUpdateEntry" /\ IsDuplicate(entries, ev.name)) => ev.zt = {}

\* the zone that AddEntryVersion triggers for the entry that a reconcile of n
\* replaces because the DNS name changed: its active zone, if known and not
\* the zone of the new entry
LeftZone(n) ==
    IF /\ ~IsNil(entries[n])
       /\ entries[n].dns # obj[n].dns
       /\ entries[n].activezone \in KnownZones(Store)
       /\ entries[n].activezone # entries'[n].zone
    THEN {entries[n].activezone}
    ELSE {}

\* C10, amended: every indexed duplicate is not modified, and a reconcile
\* that leaves the object's entry a duplicate has not triggered the zone the
\* entry is bound to: it has triggered nothing but the active zone of the
\* entry it replaced, when the DNS name of the object changed.
DuplicateTriggersOnlyLeftZone ==
    [][\A n \in Names :
        /\ IsDuplicate(entries', n) => ~entries'[n].modified
        /\ (ev'.op = "HandleUpdateEntry" /\ ev'.name = n /\ IsDuplicate(entries', n))
            => ev'.zt = LeftZone(n) /\ entries'[n].zone \notin ev'.zt]_vars

\* C10 witness: a reconcile lost the arbitration, left the entry a duplicate
\* that is not modified, and triggered no zone
DuplicateTriggersOnlyLeftZoneWitness ==
    /\ ev.op = "HandleUpdateEntry"
    /\ ev.path = "loser"
    /\ IsDuplicate(entries, ev.name)
    /\ ~entries[ev.name].modified
    /\ entries[ev.name].zone # ""
    /\ ev.zt = {}

\* the holder a of the DNS name d is deleted while b, the only other object
\* on d, waits as a duplicate; the zone of d is served by a valid provider and
\* the control plane makes no further change
TakeoverPending(a, b, d) ==
    /\ a # b
    /\ changes = MaxChanges
    /\ prov[ZoneOf[d]] = "valid"
    /\ obj[a].phase = "deleting"
    /\ ~IsNil(entries[a]) /\ dnsnames[d] = Ref(entries[a])
    /\ obj[b].phase = "live" /\ obj[b].dns = d
    /\ IsDuplicate(entries, b) /\ entries[b].dns = d /\ entries[b].valid
    /\ \A c \in Names \ {a, b} : obj[c].phase = "absent" /\ IsNil(entries[c])

\* b holds the active claim on d and is no duplicate
Promoted(b, d) == ~IsNil(entries[b]) /\ dnsnames[d] = Ref(entries[b]) /\ ~entries[b].duplicate

\* the zone of b's entry is triggered, or has been reconciled with b in it
ZoneTriggeredFor(b) == entries[b].zone \in ztrig \/ entries[b].activezone = entries[b].zone

\* C11: takeover.  Once the holder e2 of the DNS name n1 is deleted while the
\* later entry e1 waits on the name as a duplicate, e1 is eventually
\* reconciled, holds the active claim, is no duplicate, and its zone is
\* triggered (or already reconciled) with e1 as the holder; and the reconcile
\* in which a waiting duplicate becomes the holder triggers the entry's zone.
Takeover ==
    /\ TakeoverPending("e2", "e1", "n1") ~> (Promoted("e1", "n1") /\ ZoneTriggeredFor("e1"))
    /\ [][\A b \in Names :
            (ev'.op = "HandleUpdateEntry" /\ ev'.name = b /\ ev'.path = "promoted" /\ Kind[b] # "lock")
                => /\ IsDuplicate(entries, b)
                   /\ Promoted(b, obj[b].dns)'
                   /\ entries'[b].zone \in ev'.zt]_vars

\* C11 witness: e1 waited as a duplicate, the holder e2 was deleted, and the
\* reconcile of e1 has made it the holder and triggered its zone
TakeoverWitness ==
    /\ ev.op = "HandleUpdateEntry" /\ ev.name = "e1" /\ ev.path = "promoted"
    /\ obj["e2"].phase # "live"
    /\ Promoted("e1", "n1")
    /\ "z1" \in ev.zt
    /\ obj["e1"].state = "pending"

\* a reconcile of n now finds a deleting object with the finalizer whose
\* entry is valid and whose active zone is not in state.zones
DeletingZoneGone(n) ==
    LET v == Setup(Store, n, EntryPremise(Store, obj[n].dns, obj[n].zone))
        new == IF IsNil(entries[n]) THEN NewEntry(Store, v) ELSE Update(Store, entries[n], v)
    IN  /\ obj[n].phase = "deleting"
        /\ obj[n].fin
        /\ new.valid
        /\ new.activezone \notin KnownZones(Store)

\* n is reconciled in this step and every call to the control plane and to
\* the provider was answered without error
ReconciledCleanly(n) == ev'.op = "HandleUpdateEntry" /\ ev'.name = n /\ faults' = faults

DeletingUnmanaged(n) ==
    LET v == Setup(Store, n, EntryPremise(Store, obj[n].dns, obj[n].zone))
    IN  obj[n].phase = "deleting" /\ obj[n].fin /\ ~v.valid

PremiseStability ==
    [][\A n \in Names :
        (ev'.op = "HandleUpdateEntry" /\ ev'.name = n /\ ev'.mismatch)
            => /\ ev'.res = "repeat"
               /\ \A m \in Names : obj'[m].state = "ready" => obj[m].state = "ready"]_vars

\* C15: the global lock is not held across a suspension point.  No worker
\* writes to the control plane (SetFinalizer, RemoveFinalizer, status update)
\* while it holds state.lock.
NoCallUnderStateLock == ev.lockedio = {}

\* HandleUpdateEntry runs on the lock's entry, past AddEntryVersion
Reconciling == rf.hue \in {"added", "read"}

\* C16: per-entry lock.  While HandleUpdateEntry runs on an entry, the first
\* reconcile of the object included, UpdateLockStates does not write the
\* status or updateRequired of that entry.
PerEntryExclusion ==
    ~(Reconciling /\ ev.op \in {"WriteLockStatus", "RequireUpdate"})

\* the step is a failed lookup of UpdateLockStates
LookupFails == ev'.op = "LookupTXT" /\ rf.down

\* twice the TTL of the lock has passed since the recorded first failure
Expired == rf.ff # 0 /\ rf.now - rf.ff > EngineOwn.ttl * 2

\* what UpdateLockStates does after the lookup: the first failure goes into
\* the status, the requested update onto the entry and its key into the
\* queue; and a reconcile of an entry with updateRequired reads the provider
RefreshCommits ==
    /\ ev'.op = "WriteLockStatus" => rf'.ff = rf.firstfailed /\ (rf.upd => rf'.uls = "written")
    /\ ev'.op = "RequireUpdate" => rf'.updateRequired /\ rf'.queued
    /\ (ev'.op = "RefreshRead" /\ rf.updateRequired) => ev'.dec # "not-required"

\* C17: lock expiry, as the specification states it.  A failing lookup keeps
\* a recorded FirstFailedDNSLookup and records its own time if there is none;
\* it requests an update if more than twice the TTL has passed since the
\* recorded first failure, or if there is none recorded and the lock is not
\* ready; the requested update sets updateRequired and enqueues the lock, and
\* the next checkAndUpdateLock then reads the provider.
LockExpiry ==
    [][/\ LookupFails
            => /\ rf'.firstfailed = IF rf.ff # 0 THEN rf.ff ELSE rf.now
               /\ Expired => rf'.upd
               /\ (rf.ff = 0 /\ rf.state # "ready") => rf'.upd
       /\ RefreshCommits]_vars

\* C17: lock expiry, as the code does it.  As before, but only a first
\* failure recorded after the controller started counts: one recorded before
\* is treated as none, the failing lookup records its own time instead and
\* requests the update if the lock is not ready.
LockExpirySinceStartup ==
    [][/\ LookupFails
            => /\ rf'.firstfailed = IF rf.ff # 0 /\ rf.ff > rf.startup THEN rf.ff ELSE rf.now
               /\ (Expired /\ rf.ff > rf.startup) => rf'.upd
               /\ ((rf.ff = 0 \/ rf.ff <= rf.startup) /\ rf.state # "ready") => rf'.upd
       /\ RefreshCommits]_vars

\* C17 witness: lookups have failed for more than twice the TTL since the
\* first failure, in one run of the controller, and the update is requested
LockExpirySinceStartupWitness ==
    /\ ev.op = "RequireUpdate"
    /\ rf.startup = 0 /\ rf.down
    /\ rf.ff # 0 /\ rf.now - rf.ff > EngineOwn.ttl * 2
    /\ rf.updateRequired /\ rf.queued /\ rf.state = "stale"

\* the provider's record carries a lock id that is not the lock's own
ForeignRecord(rs) == Len(rs.recs) # 0 /\ GetAttr(rs, "lockid") # EngineOwn.lockid

\* C18: a contested lock stays stale.  Once checkAndUpdateLock has set the
\* status to stale because the record carries another lock id, the status is
\* stale for as long as the record carries the other lock id.
ContestedStaysStale ==
    (rf.staleid /\ ForeignRecord(txt)) => rf.state = "stale"

\* the step is the rest of checkAndUpdateLock after a successful read
Updating == ev'.op = "RefreshUpdate"

Uncontested(rs, own) ==
    \/ Len(rs.recs) = 0
    \/ /\ GetAttr(rs, "lockid") = own.lockid
       /\ ParseInt(GetAttr(rs, "timestamp")).ok
       /\ ~(own.ts < ParseInt(GetAttr(rs, "timestamp")).i)

\* the record set the lock wants differs from the one read in its values or
\* in its TTL
Differs(rs, own) == Values(rs) # Values(NewRS(own)) \/ rs.ttl # own.ttl

\* C19: write if and only if different.  When checkAndUpdateLock has read a
\* record set that is neither contested nor newer, it writes the wanted
\* record set if and only if there is no record or the wanted record set
\* differs from the one read in its value set or its TTL; otherwise it
\* leaves the provider's record set as it is.
WriteIffDiffers ==
    [][\A w \in Writers :
        (ev'.op = "LockUpdate" /\ ev'.name = w /\ Uncontested(lw[w].rs, lw[w].own))
            => /\ ev'.dec = "write" <=> (Len(lw[w].rs.recs) = 0 \/ Differs(lw[w].rs, lw[w].own))
               /\ ev'.dec \in {"write", "same"}
               /\ (ev'.dec = "write" /\ ev'.res = "succeeded") => txt' = NewRS(lw[w].own)
               /\ ev'.dec = "same" => txt' = txt]_vars

\* C19 witness: a writer has replaced a record set that had the wanted values
\* and another TTL
WriteIffDiffersWitness ==
    \E w \in Writers :
        /\ ev.op = "LockUpdate" /\ ev.name = w /\ ev.dec = "write" /\ ev.res = "succeeded"
        /\ lw[w].wrote
        /\ Values(lw[w].over) = Values(NewRS(lw[w].own))
        /\ lw[w].over.ttl # lw[w].own.ttl
        /\ txt = NewRS(lw[w].own)

\* the step is a reconcile of the lock-kind object n that AddEntryVersion
\* returned an entry for: it ends in checkAndUpdateLock / checkAndDeleteLock
LockReconcile(n) ==
    /\ ev'.op = "HandleUpdateEntry" /\ ev'.name = n /\ Kind[n] = "lock"
    /\ ev'.path # "foreign"

\* C21: a reconcile of a lock-kind entry never triggers the zone reconciler.
\* A reconcile that hands a lock entry to checkAndUpdateLock or
\* checkAndDeleteLock returns that call's result and has triggered no hosted
\* zone at any point.
LockNeverTriggersZone ==
    [][\A n \in Names : LockReconcile(n) => ev'.zt = {}]_vars

\* the step is a call of I_get that reads the object again
ReRead == im'.op = "I_get" /\ im.op # ""

\* the calls that I_modify can still make decrease with every call
Remaining(m) ==
    IF m.done THEN 0
    ELSE 3 * m.cnt + (CASE m.pc = "get" -> 1 [] m.pc = "update" -> 2 [] m.pc = "modifier" -> 3
                        [] m.pc = "create-reget" -> 4 [] m.pc = "create" -> 5
                        [] m.pc = "create-modifier" -> 6 [] OTHER -> 7)

\* what holds of every call of I_modify: it ends, makes no more than cnt
\* updates, makes none when the modifier reports no modification, and after
\* cnt conflicts and the read that follows the last one it returns the
\* conflict
BoundedRetry ==
    /\ Remaining(im') < Remaining(im)
    /\ im'.updates <= cnt
    /\ (im'.op = "modifier" /\ im'.out = "unmodified")
            => im'.done /\ ~im'.mod /\ im'.updates = im.updates
    /\ (im.op \in {"I_update", "I_updateStatus"} /\ im.out = "conflict" /\ im.conflicts = cnt
            /\ im'.out = "")
            => im'.done /\ im'.mod /\ im'.err = "conflict"

\* C22: I_modify as a bounded retry wrapper, as the specification states it.
\* It ends; it makes at most 10 update attempts; it reads the object again
\* and applies the modifier again only after an update attempt failed with a
\* conflict; on every other error it returns at once with that error; it
\* makes no update when the modifier reports no modification; after 10
\* conflicts in a row it returns the last conflict.
ModifyRetriesOnConflictOnly ==
    [][/\ BoundedRetry
       /\ ReRead => im.op \in {"I_update", "I_updateStatus"} /\ im.out = "conflict"
       /\ im'.op = "modifier" => im.op \in {"", "I_get"}
       /\ im'.out \notin {"", "unmodified", "conflict"} => im'.done /\ im'.err = im'.out]_vars

\* the answer is the one that makes I_modify go on when called with create:
\* the first read finds no object, or I_create finds that it exists already
CreateAnswer ==
    /\ im.create
    /\ \/ im.op = "" /\ im'.op = "I_get" /\ im'.out = "not-found"
       \/ im'.op = "I_create" /\ im'.out = "already-exists"

\* C22, amended: as before, but when called with create I_modify makes one
\* create attempt if the first read finds no object, and reads the object
\* again and applies the modifier again also after that create attempt failed
\* because the object exists already.
ModifyRetriesOnConflictOrExists ==
    [][/\ BoundedRetry
       /\ im'.creates <= 1 /\ (im'.creates = 1 => im.create /\ im'.updates <= cnt)
       /\ ReRead => \/ im.op \in {"I_update", "I_updateStatus"} /\ im.out = "conflict"
                    \/ im.create /\ im.op = "I_create" /\ im.out = "already-exists"
       /\ im'.op = "modifier" => im.op \in {"", "I_get"}
       /\ (im'.out \notin {"", "unmodified", "conflict"} /\ ~CreateAnswer)
            => im'.done /\ im'.err = im'.out
       /\ CreateAnswer => ~im'.done]_vars

\* C22 witness: the create attempt found the object, and every one of the 10
\* update attempts that followed met a conflict, which I_modify returns
ModifyRetriesOnConflictOrExistsWitness ==
    /\ im.done /\ im.create /\ im.creates = 1
    /\ im.updates = cnt /\ im.conflicts = cnt
    /\ im.mod /\ im.err = "conflict"

\* AddEntryVersion as HandleUpdateEntry(n) calls it now (lines 433-449), with
\* the answers io and the order ord: the store it is given (in), the version
\* (v), the answers (io) and what it returns (r)
AddEntryVersionOf(n, io, ord) ==
    LET st0 == [Store EXCEPT !.queue = @ \ {n}]
        v == Setup(st0, n, EntryPremise(st0, obj[n].dns, obj[n].zone))
        in == SetupStatus(st0, v)
    IN  [in |-> in, v |-> v, io |-> io,
         r |-> AddEntryVersion(in, v, IF v.valid \/ v.deleting THEN "succeeded" ELSE "failed", io, ord)]

\* the runs of AddEntryVersion that a reconcile of the object n can make now
AddEntryVersionRuns(n) ==
    IF n \in queue /\ obj[n].phase # "absent"
    THEN {AddEntryVersionOf(n, io, ord) : io \in BeginInputs(n), ord \in BeginOrders(n)}
    ELSE {}

\* the entry returned holds its DNS name and is the entry of the index
ActiveClaim(x) ==
    /\ ~IsNil(x.r.new)
    /\ x.v.dns # ""
    /\ x.r.st.dnsnames[x.v.dns] = Ref(x.r.new)
    /\ Ref(x.r.st.entries[x.v.name]) = Ref(x.r.new)

\* C23: the winner is the active claim and becomes pending.  After
\* AddEntryVersion of a version that is not deleting, is managed and has not
\* lost the arbitration of its DNS name, the entry holds the DNS name; if it
\* is valid and its status was neither ready nor pending, the status is
\* pending; a status ready or pending is as it was; the status of an entry
\* that is not valid has not become pending.
WinnerClaimsAndPends ==
    \A n \in Names : \A x \in AddEntryVersionRuns(n) :
        (~x.v.deleting /\ x.v.managing /\ x.r.st.path # "loser")
            => LET before == x.in.obj[n].state
                   after == x.r.st.obj[n].state
               IN  /\ ActiveClaim(x)
                   /\ (x.v.valid /\ before \notin {"ready", "pending"}) => after = "pending"
                   /\ before \in {"ready", "pending"} => after = before
                   /\ (~x.v.valid /\ before # "pending") => after # "pending"

\* the control plane has refused to set the finalizer in the run x
FinalizerRefused(x) == x.r.st.path = "setfin-failed"

\* C23, amended: the same, unless the control plane refuses a write.  If it
\* refuses the finalizer, AddEntryVersion returns the entry with a delay and
\* leaves the DNS-name map as it was; if it refuses the status, the entry
\* holds the DNS name and its status is as it was.
WinnerClaimsAndPendsIfAccepted ==
    \A n \in Names : \A x \in AddEntryVersionRuns(n) :
        (~x.v.deleting /\ x.v.managing /\ x.r.st.path # "loser")
            => LET before == x.in.obj[n].state
                   after == x.r.st.obj[n].state
               IN  IF FinalizerRefused(x)
                   THEN /\ x.v.valid /\ ~x.io.setOk
                        /\ x.r.status = "delay"
                        /\ x.r.st.dnsnames = x.in.dnsnames
                        /\ after = before
                   ELSE /\ ActiveClaim(x)
                        /\ (x.v.valid /\ before \notin {"ready", "pending"})
                                => after = IF x.io.updOk THEN "pending" ELSE before
                        /\ before \in {"ready", "pending"} => after = before
                        /\ (~x.v.valid /\ before # "pending") => after # "pending"

\* C23 witness: a reconcile has taken the DNS name from a later entry, the
\* entry holds the name and its status is pending
WinnerClaimsAndPendsIfAcceptedWitness ==
    /\ ev.op = "HandleUpdateEntry" /\ ev.path = "winner" /\ Kind[ev.name] # "lock"
    /\ obj[ev.name].phase = "live" /\ obj[ev.name].state = "pending"
    /\ dnsnames[obj[ev.name].dns] = Ref(entries[ev.name])
    /\ entries[ev.name].valid /\ ~entries[ev.name].duplicate

\* the run x of AddEntryVersion is given a version that is not deleting and
\* whose DNS name is not the one of the indexed entry (old), and has put a
\* new entry in the old one's place
NameChanged(x, old) ==
    /\ ~x.v.deleting
    /\ ~IsNil(old) /\ old.dns # x.v.dns
    /\ ~FinalizerRefused(x)

\* C24: a change of the DNS name.  After AddEntryVersion has replaced the
\* entry of an object by a new one for another DNS name, the index maps the
\* object name to the new entry; the old entry does not hold the old DNS name
\* and, if it held it, the name is free and the earliest waiting duplicate on
\* it is triggered; the old entry's active zone is triggered if and only if
\* it is set, differs from the zone of the new entry and is still known, and
\* no other zone is triggered.
NameChangeReleasesOldName ==
    \A n \in Names : \A x \in AddEntryVersionRuns(n) :
        LET old == x.in.entries[n]
            after == x.r.st
            waiting == Duplicates([x.in.entries EXCEPT ![n] = NilEntry], old.dns)
        IN  NameChanged(x, old)
                => /\ ~IsNil(after.entries[n])
                   /\ after.entries[n].dns = x.v.dns
                   /\ Ref(after.entries[n]) # Ref(old)
                   /\ ~IsNil(x.r.new) => Ref(after.entries[n]) = Ref(x.r.new)
                   /\ after.dnsnames[old.dns] # Ref(old)
                   /\ IF x.in.dnsnames[old.dns] = Ref(old)
                      THEN after.dnsnames[old.dns] = NilRef /\ Earliest(waiting) \subseteq after.kt
                      ELSE after.dnsnames[old.dns] = x.in.dnsnames[old.dns]
                   /\ after.zt \subseteq {old.activezone}
                   /\ old.activezone \in after.zt
                        <=> /\ old.activezone # ""
                            /\ old.activezone # x.v.zone
                            /\ old.activezone \in KnownZones(x.in)

\* C24 witness: a reconcile has moved an entry that held its DNS name in its
\* active zone to a DNS name of another zone; the old name is free and the
\* old zone is triggered
NameChangeReleasesOldNameWitness ==
    /\ ev.op = "HandleUpdateEntry" /\ obj[ev.name].phase = "live"
    /\ ev.cl.ran /\ ev.cl.held /\ ev.cl.released
    /\ ~IsNil(entries[ev.name]) /\ entries[ev.name].dns = obj[ev.name].dns
    /\ \E z \in ev.zt : z # entries[ev.name].zone /\ z = entries[ev.name].activezone
    /\ \E d \in DNSNames : d # obj[ev.name].dns /\ dnsnames[d] = NilRef

\* the step is a reconcile of the lock-kind object n that has reached
\* checkAndUpdateLock or checkAndDeleteLock
LockBranch(n) ==
    /\ ev'.op = "HandleUpdateEntry" /\ ev'.name = n /\ Kind[n] = "lock"
    /\ ev'.dec # ""

\* C25: the lock branch has a provider.  Whenever HandleUpdateEntry reaches
\* checkAndUpdateLock or checkAndDeleteLock, the premise of the reconcile
\* names a provider and the zone of the entry is in the zones map; the
\* provider of the premise is never nil there.
LockBranchHasProvider ==
    [][\A n \in Names :
        LockBranch(n)
            => LET p == EntryPremise(Store, obj[n].dns, obj[n].zone)
                   v == Setup(Store, n, p)
               IN  /\ p.provider
                   /\ v.zone \in KnownZones(Store)
                   /\ ev'.dec # "nil-provider"]_vars

\* the runs of EntryDeleted that can be made for the object n now
EntryDeletedRuns(n) ==
    IF n \in queue /\ obj[n].phase = "absent"
    THEN {RunEntryDeleted(n, ord) : ord \in Orders(IndexKeys \ {n})}
    ELSE {}

\* C26: what EntryDeleted leaves.  After EntryDeleted for an object the index
\* has no entry under its name and the name is not in the blocking set; if
\* the index had an entry, of any kind, no DNS name is mapped to that entry
\* and exactly the zone that is still resolved for the entry's DNS name, if
\* there is one, is triggered; if the index had none, the index and the
\* DNS-name map are as before and nothing is triggered; the result is
\* success.
EntryDeletedFrame ==
    /\ \A n \in Names : \A st \in EntryDeletedRuns(n) :
        LET old == entries[n]
            zone == getProviderZoneForName(Store, old.dns)
        IN  /\ IsNil(st.entries[n])
            /\ n \notin st.blockingEntries
            /\ IF IsNil(old)
               THEN st.entries = entries /\ st.dnsnames = dnsnames /\ st.zt = {} /\ st.kt = {}
               ELSE /\ \A d \in DNSNames : st.dnsnames[d] # Ref(old)
                    /\ \A m \in Names \ {n} : st.entries[m] = entries[m]
                    /\ st.zt = IF zone # "" THEN {zone} ELSE {}
    /\ ev.op = "EntryDeleted"
        => ev.res = "succeeded" /\ IsNil(entries[ev.name]) /\ ev.name \notin blockingEntries

\* C26 witness: EntryDeleted has removed an entry that held its DNS name and
\* was in the blocking set; no zone is resolved for the DNS name any more and
\* none is triggered
EntryDeletedFrameWitness ==
    /\ ev.op = "EntryDeleted" /\ ev.path = "unblocked"
    /\ ev.cl.ran /\ ev.cl.held /\ ev.cl.released
    /\ ev.zt = {}
    /\ IsNil(entries[ev.name]) /\ ev.name \notin blockingEntries
    /\ \A d \in DNSNames : dnsnames[d][1] # ev.name

----------------------------------------------------------------------------
\* the worker has lock operations left / can make its next one
Running(w) == lk.pc[w] <= Len(lk.prog[w])
CanStep(w) ==
    CASE NextOp(lk, w).op = "RLock" -> lk.writer = "" /\ lk.waiting = {}
      [] NextOp(lk, w).op = "Lock" -> (lk.writer = "" /\ lk.readers = {}) \/ w \notin lk.waiting
      [] NextOp(lk, w).op = "elock" -> lk.elock[NextOp(lk, w).on] = ""
      [] OTHER -> Running(w)

\* C27: a worker about to take an entry's lock holds no state lock, a
\* worker about to take the state lock (for reading or writing) does not
\* hold it, and whenever some worker of a mix of HandleUpdateEntry,
\* EntryDeleted, UpdateLockStates, GetEntry and GetEntriesByOwner has lock
\* operations left, some worker can make its next one.
LockOrderNoDeadlock ==
    /\ \A w \in Workers :
           NextOp(lk, w).op \in {"elock", "RLock", "Lock"} => ~HoldsStateLock(lk, w)
    /\ (\E w \in Workers : Running(w)) => \E w \in Workers : CanStep(w)

\* a HandleUpdateEntry holding its entry's lock waits for the state lock
\* that a reader holds, while UpdateLockStates waits for the entry's lock
LockOrderNoDeadlockWitness ==
    \E w, u, r \in Workers :
        /\ lk.elock["e3"] = w /\ w \in lk.waiting
        /\ NextOp(lk, u).op = "elock" /\ u # w /\ ~CanStep(u)
        /\ r \in lk.readers

----------------------------------------------------------------------------
\* the version given to the run x of AddEntryVersion is not deleting and is
\* not managed by the provider types of this controller
Unmanaged(x) == ~x.v.deleting /\ ~IsManaging(x.v)

\* the DNS names that an entry of the object n holds in the DNS-name map
ClaimsOf(st, n) == {d \in DNSNames : st.dnsnames[d] # NilRef /\ st.dnsnames[d][1] = n}

\* C28: an entry that is not managed holds no DNS name.  A run of
\* AddEntryVersion for a version that is not deleting and not managed sets no
\* finalizer, returns no entry, and leaves no DNS name in the DNS-name map
\* that an entry of this object holds, whether or not an earlier version of
\* the entry was managed.
UnmanagedHoldsNoClaim ==
    \A n \in Names : \A x \in AddEntryVersionRuns(n) :
        Unmanaged(x)
            => /\ x.r.st.obj[n].fin = x.in.obj[n].fin
               /\ IsNil(x.r.new)
               /\ ClaimsOf(x.r.st, n) = {}

====
